---- MODULE Spec2Model ----
(***************************************************************************)
(* A model of jloan's debt-payoff engine (the calculation module):         *)
(* the single-loan amortization primitives, the one-month budget           *)
(* allocator, the month-by-month rollover simulator and the projection     *)
(* aggregator built on them.                                               *)
(*                                                                         *)
(* Numbers.  The program computes in binary floating point.  The model     *)
(* computes in fixed point: every monetary amount is an integer number of  *)
(* thousandths of a currency unit (1000000 is 1000.00), an annual rate is  *)
(* an integer percentage, and the product balance * monthlyRate is         *)
(* truncated to a thousandth.  The tolerances 0.01 and 0.001 are 10 and 1. *)
(*                                                                         *)
(* Dates.  A Date is the number of days since 1970-01-01 (the time of day  *)
(* of a start date never changes); setMonth is calendar arithmetic with    *)
(* the day-of-month overflow of the language (Jan 31 + 1 month = Mar 2/3). *)
(***************************************************************************)
EXTENDS Integers, Sequences, FiniteSets, TLC

VARIABLES
    \* ---- single-loan primitives (SpecLoan) ----
    balance,            \* argument balance of the primitives
    interestRate,       \* argument interestRate (APR, percent)
    startDate,          \* argument startDate
    payoffCalls,        \* monthlyPayment -> result of calculatePayoffDate
    interestCalls,      \* monthlyPayment -> result of calculateTotalInterest
    \* ---- the projection request (Spec) and the allocator call (SpecAlloc) ----
    loans,              \* argument loans: the Loan records, in input order
    monthlyBudget,      \* argument monthlyBudget: <<>> (null) or <<monthlyAllocation>>
    strategyType,       \* argument strategyType ("null" for none)
    pc,                 \* where the request stands
    \* ---- locals of the running simulateLoanPayoff call ----
    simAllocation,      \* its argument monthlyAllocation
    simStrategy,        \* its argument strategyType
    workingLoans,       \* the working set
    projections,        \* one PaymentProjection per loan passed in
    month,
    iterations,         \* the passes of the simulation loop made by the request
    totalInterestPaid,
    paymentsThisMonth,  \* loan id -> payment, of the month simulated last
    monthStart,         \* the working set as the month simulated last found it
    principalThisMonth, \* loan id -> principal, of the month simulated last
    largestApplied,     \* loan id -> the most of a payment applied to it in a month
    \* ---- locals of calculateStrategyProjections ----
    minPaymentSimulation,
    strategySimulation,
    allocations,        \* what distributeBudgetAcrossLoans returned
    result,             \* the StrategyProjection returned
    \* ---- the applyStrategy call (SpecAlloc) ----
    orderedLoans,       \* what applyStrategy returned
    \* ---- the caller of calculateStrategyProjections ----
    passedLoans,        \* the Loan records as the caller passed them
    firstResult,        \* <<>>, or <<the result of the call made before this one>>
    baselineBalances,   \* month -> loan id -> balance at the end of that month of
                        \* the minimum-payment simulation (kept by SpecCompare)
    \* ---- the budget routes (SpecBudget) ----
    budgetRows,         \* table monthly_budget: row id -> row
    budgetRequests,     \* the budget requests in flight: request -> its position
    \* ---- the payment routes (SpecPayments) ----
    loanRow,            \* the row of table loans the payments are made on
    openingBalance,     \* its current_balance before any of the requests
    paymentRows,        \* table upcoming_payments: row id -> row
    paymentRequests     \* the payment requests in flight: request -> its position

loanVars == <<balance, interestRate, startDate, payoffCalls, interestCalls>>

requestVars == <<loans, monthlyBudget, strategyType>>

simVars == <<simAllocation, simStrategy, workingLoans, projections, month,
             iterations, totalInterestPaid, paymentsThisMonth, monthStart,
             principalThisMonth, largestApplied>>

projectionVars == <<minPaymentSimulation, strategySimulation, allocations, result>>

callVars == <<orderedLoans, passedLoans, firstResult>>

budgetVars == <<budgetRows, budgetRequests>>

paymentVars == <<loanRow, openingBalance, paymentRows, paymentRequests>>

historyVars == <<baselineBalances>>

otherVars == <<callVars, budgetVars, paymentVars, historyVars>>

vars == <<loanVars, requestVars, pc, simVars, projectionVars, otherVars>>

----------------------------------------------------------------------------
(* Program constants *)

\* 0.01, the balance / capacity tolerance
Cent == 10

\* 0.001, the display threshold of an extra allocation
Milli == 1

\* apr / 100 / 12: a monthly rate is the APR over 1200
RateDen == 1200

\* const maxMonths = 600 ("50 years max")
maxMonths == 600

\* the 30 of maxMonths * 30 * 24 * 60 * 60 * 1000 (days per horizon month)
HorizonMonthDays == 30

\* totalInterest < balance * 100, the defensive bound of calculateTotalInterest
RunawayFactor == 100

\* priorityOrder ?? 999
DefaultPriority == 999

----------------------------------------------------------------------------
(* Arithmetic helpers *)

Max(a, b) == IF a >= b THEN a ELSE b

Min(a, b) == IF a <= b THEN a ELSE b

\* Math.round(x * 100) / 100 on an amount in thousandths: to the nearest
\* cent, a half going up.
RoundCents(x) == ((x + 5) \div 10) * 10

\* apr / 100 / 12, as the numerator of a fraction over RateDen
calculateMonthlyRate(apr) == apr

\* currentBalance * monthlyRate
InterestOn(currentBalance, monthlyRate) == (currentBalance * monthlyRate) \div RateDen

----------------------------------------------------------------------------
(* Dates: days since 1970-01-01 <-> (year, month, day), proleptic Gregorian *)

DaysFromCivil(y, m, d) ==
    LET yy  == IF m <= 2 THEN y - 1 ELSE y
        era == yy \div 400
        yoe == yy - era * 400
        mp  == IF m > 2 THEN m - 3 ELSE m + 9
        doy == (153 * mp + 2) \div 5 + d - 1
        doe == yoe * 365 + yoe \div 4 - yoe \div 100 + doy
    IN  era * 146097 + doe - 719468

CivilFromDays(z) ==
    LET zz  == z + 719468
        era == zz \div 146097
        doe == zz - era * 146097
        yoe == (doe - doe \div 1460 + doe \div 36524 - doe \div 146096) \div 365
        doy == doe - (365 * yoe + yoe \div 4 - yoe \div 100)
        mp  == (5 * doy + 2) \div 153
        d   == doy - (153 * mp + 2) \div 5 + 1
        m   == IF mp < 10 THEN mp + 3 ELSE mp - 9
        y   == yoe + era * 400 + (IF m <= 2 THEN 1 ELSE 0)
    IN  [year |-> y, month |-> m, day |-> d]

\* d.setMonth(d.getMonth() + n): the month index moves by n with the year
\* carried, the day of the month is kept and overflows into the next month.
SetMonthPlus(date, n) ==
    LET c  == CivilFromDays(date)
        tm == (c.month - 1) + n
    IN  DaysFromCivil(c.year + tm \div 12, (tm % 12) + 1, 1) + c.day - 1

\* new Date(startDate.getTime() + maxMonths * 30 * 24 * 60 * 60 * 1000)
NeverPayoffDate(start) == start + maxMonths * HorizonMonthDays

----------------------------------------------------------------------------
(* calculatePayoffDate *)

\* One pass of the while loop of calculatePayoffDate on the loop state s
\* (the locals currentBalance and months): the test of the loop condition,
\* then the body.  done: the loop has been left; never: it was left by the
\* return of the "payment doesn't cover interest" branch; iterations: the
\* loop bodies entered.
PayoffStep(s, monthlyPayment, monthlyRate) ==
    IF s.done THEN s
    ELSE IF ~(s.currentBalance > Cent /\ s.months < maxMonths)
    THEN [s EXCEPT !.done = TRUE]
    ELSE LET interest  == InterestOn(s.currentBalance, monthlyRate)
             principal == monthlyPayment - interest
         IN  IF principal <= 0
             THEN [s EXCEPT !.done = TRUE, !.never = TRUE,
                            !.iterations = s.iterations + 1]
             ELSE [s EXCEPT !.currentBalance = Max(0, s.currentBalance - principal),
                            !.months = s.months + 1,
                            !.iterations = s.iterations + 1]

\* The loop: PayoffStep repeated until done, at most n times (by halving,
\* so that the evaluation stays shallow).
RECURSIVE PayoffLoop(_, _, _, _)
PayoffLoop(s, n, monthlyPayment, monthlyRate) ==
    IF s.done \/ n = 0 THEN s
    ELSE IF n = 1 THEN PayoffStep(s, monthlyPayment, monthlyRate)
    ELSE LET t == PayoffLoop(s, n \div 2, monthlyPayment, monthlyRate)
         IN  IF t.done THEN t
             ELSE PayoffLoop(t, n - n \div 2, monthlyPayment, monthlyRate)

\* PayoffRun with < for <= in the guard of the degenerate inputs.
PayoffRunStrictGuard(bal, monthlyPayment, rate, start) ==
    IF monthlyPayment < 0 \/ bal < 0
    THEN [date |-> start, months |-> 0, iterations |-> 0, never |-> FALSE,
          done |-> TRUE]
    ELSE LET r == PayoffLoop([currentBalance |-> bal, months |-> 0, iterations |-> 0,
                              never |-> FALSE, done |-> FALSE],
                             maxMonths + 1, monthlyPayment, calculateMonthlyRate(rate))
         IN  [date       |-> IF r.never THEN NeverPayoffDate(start)
                                        ELSE SetMonthPlus(start, r.months),
              months     |-> r.months,
              iterations |-> r.iterations,
              never      |-> r.never,
              done       |-> r.done]

\* The call, with the facts of its run: the Date returned, the months
\* counted and the loop iterations entered.  The loop body runs at most
\* maxMonths times, and one more pass leaves the loop.
PayoffRun(bal, monthlyPayment, rate, start) ==
    IF monthlyPayment <= 0 \/ bal <= 0
    THEN [date |-> start, months |-> 0, iterations |-> 0, never |-> FALSE,
          done |-> TRUE]
    ELSE LET r == PayoffLoop([currentBalance |-> bal, months |-> 0, iterations |-> 0,
                              never |-> FALSE, done |-> FALSE],
                             maxMonths + 1, monthlyPayment, calculateMonthlyRate(rate))
         IN  [date       |-> IF r.never THEN NeverPayoffDate(start)
                                        ELSE SetMonthPlus(start, r.months),
              months     |-> r.months,
              iterations |-> r.iterations,
              never      |-> r.never,
              done       |-> r.done]

calculatePayoffDate(bal, monthlyPayment, rate, start) ==
    PayoffRun(bal, monthlyPayment, rate, start).date

----------------------------------------------------------------------------
(* calculateTotalInterest *)

\* the most passes of the loop of calculateTotalInterest the model follows
MaxIterations == 2048

\* InterestStep that counts the interest on the balance the payment leaves.
InterestStepAfterPayment(s, bal, monthlyPayment, monthlyRate) ==
    IF s.done THEN s
    ELSE IF ~(s.currentBalance > Cent /\ s.totalInterest < bal * RunawayFactor)
    THEN [s EXCEPT !.done = TRUE]
    ELSE LET interest  == InterestOn(s.currentBalance, monthlyRate)
             principal == monthlyPayment - interest
         IN  IF principal <= 0
             THEN [s EXCEPT !.done = TRUE, !.broke = TRUE,
                            !.iterations = s.iterations + 1]
             ELSE [s EXCEPT !.totalInterest = s.totalInterest +
                                InterestOn(Max(0, s.currentBalance - principal),
                                           monthlyRate),
                            !.currentBalance = Max(0, s.currentBalance - principal),
                            !.iterations = s.iterations + 1]

\* One pass of the while loop of calculateTotalInterest on the loop state s
\* (the locals currentBalance and totalInterest).  broke: the loop was left
\* by the break of the "principal <= 0" branch.
InterestStep(s, bal, monthlyPayment, monthlyRate) ==
    IF s.done THEN s
    ELSE IF ~(s.currentBalance > Cent /\ s.totalInterest < bal * RunawayFactor)
    THEN [s EXCEPT !.done = TRUE]
    ELSE LET interest  == InterestOn(s.currentBalance, monthlyRate)
             principal == monthlyPayment - interest
         IN  IF principal <= 0
             THEN [s EXCEPT !.done = TRUE, !.broke = TRUE,
                            !.iterations = s.iterations + 1]
             ELSE [s EXCEPT !.totalInterest = s.totalInterest + interest,
                            !.currentBalance = Max(0, s.currentBalance - principal),
                            !.iterations = s.iterations + 1]

RECURSIVE InterestLoop(_, _, _, _, _)
InterestLoop(s, n, bal, monthlyPayment, monthlyRate) ==
    IF s.done \/ n = 0 THEN s
    ELSE IF n = 1 THEN InterestStep(s, bal, monthlyPayment, monthlyRate)
    ELSE LET t == InterestLoop(s, n \div 2, bal, monthlyPayment, monthlyRate)
         IN  IF t.done THEN t
             ELSE InterestLoop(t, n - n \div 2, bal, monthlyPayment, monthlyRate)

InterestRun(bal, monthlyPayment, rate) ==
    IF monthlyPayment <= 0 \/ bal <= 0
    THEN [total |-> 0, iterations |-> 0, broke |-> FALSE, done |-> TRUE]
    ELSE LET r == InterestLoop([currentBalance |-> bal, totalInterest |-> 0,
                                iterations |-> 0, broke |-> FALSE, done |-> FALSE],
                               MaxIterations, bal, monthlyPayment,
                               calculateMonthlyRate(rate))
         IN  [total      |-> RoundCents(r.totalInterest),
              iterations |-> r.iterations,
              broke      |-> r.broke,
              done       |-> r.done]

calculateTotalInterest(bal, monthlyPayment, rate) ==
    InterestRun(bal, monthlyPayment, rate).total

----------------------------------------------------------------------------
(* Loans, sums and strategy order *)

Null == "null"

\* the sum of f[x] over the x of the finite set S
RECURSIVE SumOver(_, _)
SumOver(f, S) ==
    IF S = {} THEN 0
    ELSE LET x == CHOOSE y \in S : TRUE
         IN  f[x] + SumOver(f, S \ {x})

\* the maximum of Math.max(...values, 0)
RECURSIVE MaxOver(_, _)
MaxOver(f, S) ==
    IF S = {} THEN 0
    ELSE LET x == CHOOSE y \in S : TRUE
         IN  Max(f[x], MaxOver(f, S \ {x}))

\* list.filter(keep), keep a function index -> BOOLEAN
RECURSIVE FilterSeq(_, _)
FilterSeq(list, keep) ==
    IF list = <<>> THEN <<>>
    ELSE LET rest == FilterSeq(SubSeq(list, 1, Len(list) - 1),
                               [i \in 1..(Len(list) - 1) |-> keep[i]])
         IN  IF keep[Len(list)] THEN Append(rest, list[Len(list)]) ELSE rest

\* loans.filter((loan) => loan.isActive)
ActiveOf(list) == FilterSeq(list, [i \in 1..Len(list) |-> list[i].isActive])

\* [...list].sort((a, b) => key(a) - key(b)), key given by index: the sort of
\* the language is stable, so an element goes after those of smaller key and
\* after the earlier ones of equal key.
StableSort(list, key) ==
    LET n       == Len(list)
        rank(i) == Cardinality({j \in 1..n : \/ key[j] < key[i]
                                             \/ key[j] = key[i] /\ j < i}) + 1
    IN  [k \in 1..n |-> list[CHOOSE i \in 1..n : rank(i) = k]]

\* a.priorityOrder ?? 999
PriorityOf(loan) ==
    IF loan.priorityOrder = <<>> THEN DefaultPriority ELSE loan.priorityOrder[1]

\* SortLoans with the avalanche comparator turned round (a - b for b - a).
SortLoansAscendingRate(list, strategy) ==
    IF strategy = "snowball"
    THEN StableSort(list, [i \in 1..Len(list) |-> list[i].currentBalance])
    ELSE IF strategy = "avalanche"
    THEN StableSort(list, [i \in 1..Len(list) |-> list[i].interestRate])
    ELSE StableSort(list, [i \in 1..Len(list) |-> PriorityOf(list[i])])

\* The three-way sort of distributeBudgetAcrossLoans: snowball by ascending
\* balance, avalanche by descending rate, anything else by priority.
SortLoans(list, strategy) ==
    IF strategy = "snowball"
    THEN StableSort(list, [i \in 1..Len(list) |-> list[i].currentBalance])
    ELSE IF strategy = "avalanche"
    THEN StableSort(list, [i \in 1..Len(list) |-> 0 - list[i].interestRate])
    ELSE StableSort(list, [i \in 1..Len(list) |-> PriorityOf(list[i])])

\* calculateMonthlyObligation
calculateMonthlyObligation(list) ==
    LET active == ActiveOf(list)
    IN  SumOver([i \in 1..Len(active) |-> active[i].minimumPayment], 1..Len(active))

----------------------------------------------------------------------------
(* The strategy helpers: applyStrategy and its three sorts *)

\* (a, b) => Number(a.currentBalance) - Number(b.currentBalance)
sortBySnowball(list) ==
    StableSort(list, [i \in 1..Len(list) |-> list[i].currentBalance])

\* (a, b) => Number(b.interestRate) - Number(a.interestRate)
sortByAvalanche(list) ==
    StableSort(list, [i \in 1..Len(list) |-> 0 - list[i].interestRate])

\* sortByCustom with a missing priority counted as 0 (?? 0).
sortByCustomMissingFirst(list) ==
    StableSort(list, [i \in 1..Len(list) |->
                         IF list[i].priorityOrder = <<>> THEN 0
                         ELSE list[i].priorityOrder[1]])

\* (a, b) => (a.priorityOrder ?? 999) - (b.priorityOrder ?? 999)
sortByCustom(list) ==
    StableSort(list, [i \in 1..Len(list) |->
                         IF list[i].priorityOrder = <<>> THEN DefaultPriority
                         ELSE list[i].priorityOrder[1]])

\* applyStrategy(loans, strategyType)
applyStrategy(list, strategy) ==
    LET activeLoans == ActiveOf(list)
    IN  IF strategy = Null THEN activeLoans
        ELSE CASE strategy = "snowball"  -> sortBySnowball(activeLoans)
               [] strategy = "avalanche" -> sortByAvalanche(activeLoans)
               [] strategy = "custom"    -> sortByCustom(activeLoans)
               [] OTHER                  -> activeLoans

----------------------------------------------------------------------------
(* distributeBudgetAcrossLoans *)

\* DistributeBody moving on to the next loan after every pass, whether or
\* not the loan is paid off.
DistributeBodySinglePass(s, sortedLoans) ==
    LET loan              == sortedLoans[s.currentLoanIndex]
        currentBalance    == loan.currentBalance
        currentAllocation == s.allocations[loan.id]
        interest          == InterestOn(currentBalance, calculateMonthlyRate(loan.interestRate))
        remainingPrincipalCapacity == currentBalance - Max(0, currentAllocation - interest)
        additionalPayment ==
            IF remainingPrincipalCapacity > Cent
            THEN Min(s.remainingExtra, remainingPrincipalCapacity)
            ELSE 0
    IN  [allocations      |-> [s.allocations EXCEPT ![loan.id] = @ + additionalPayment],
         remainingExtra   |-> s.remainingExtra - additionalPayment,
         currentLoanIndex |-> s.currentLoanIndex + 1,
         stop             |-> FALSE]

\* The body of the while loop on one loan: the loop state s holds
\* allocations, remainingExtra and currentLoanIndex (from 1); stop is the
\* break of the last branch.
DistributeBody(s, sortedLoans) ==
    LET loan              == sortedLoans[s.currentLoanIndex]
        currentBalance    == loan.currentBalance
        currentAllocation == s.allocations[loan.id]
        monthlyRate       == calculateMonthlyRate(loan.interestRate)
        interest          == InterestOn(currentBalance, monthlyRate)
        maxPrincipalPayment        == currentBalance
        currentPrincipalPayment    == Max(0, currentAllocation - interest)
        remainingPrincipalCapacity == maxPrincipalPayment - currentPrincipalPayment
        additionalPayment ==
            IF remainingPrincipalCapacity > Cent
            THEN Min(s.remainingExtra, remainingPrincipalCapacity)
            ELSE 0
        newTotalPayment     == currentAllocation + additionalPayment
        remainingExtra      == s.remainingExtra - additionalPayment
        newPrincipalPayment == Max(0, newTotalPayment - interest)
        isPaidOff           == newPrincipalPayment >= currentBalance - Cent
        cantTakeMore        == remainingPrincipalCapacity <= Cent
    IN  [allocations      |-> [s.allocations EXCEPT ![loan.id] = newTotalPayment],
         remainingExtra   |-> remainingExtra,
         currentLoanIndex |-> IF isPaidOff \/ cantTakeMore
                              THEN s.currentLoanIndex + 1
                              ELSE s.currentLoanIndex,
         stop             |-> ~(isPaidOff \/ cantTakeMore) /\ remainingExtra <= Cent]

\* while (remainingExtra > 0.01 && currentLoanIndex < sortedLoans.length)
RECURSIVE DistributeLoop(_, _)
DistributeLoop(s, sortedLoans) ==
    IF s.stop \/ ~(s.remainingExtra > Cent /\ s.currentLoanIndex <= Len(sortedLoans))
    THEN s.allocations
    ELSE DistributeLoop(DistributeBody(s, sortedLoans), sortedLoans)

\* distributeBudgetAcrossLoans with the operands of extraFunds swapped.
distributeBudgetOperandsSwapped(list, monthlyAllocation, strategy) ==
    LET activeLoans == ActiveOf(list)
        ids         == {activeLoans[i].id : i \in 1..Len(activeLoans)}
        minimums    == [id \in ids |->
                          (CHOOSE l \in {activeLoans[i] : i \in 1..Len(activeLoans)} :
                              l.id = id).minimumPayment]
        totalMinimumPayments == calculateMonthlyObligation(list)
        extraFunds  == totalMinimumPayments - monthlyAllocation
    IN  IF extraFunds <= 0 \/ strategy = Null
        THEN minimums
        ELSE DistributeLoop([allocations |-> minimums, remainingExtra |-> extraFunds,
                             currentLoanIndex |-> 1, stop |-> FALSE],
                            SortLoans(activeLoans, strategy))

\* distributeBudgetAcrossLoans without the test of the strategy.
distributeBudgetStrategyUnchecked(list, monthlyAllocation, strategy) ==
    LET activeLoans == ActiveOf(list)
        ids         == {activeLoans[i].id : i \in 1..Len(activeLoans)}
        minimums    == [id \in ids |->
                          (CHOOSE l \in {activeLoans[i] : i \in 1..Len(activeLoans)} :
                              l.id = id).minimumPayment]
        totalMinimumPayments == calculateMonthlyObligation(list)
        extraFunds  == monthlyAllocation - totalMinimumPayments
    IN  IF extraFunds <= 0
        THEN minimums
        ELSE DistributeLoop([allocations |-> minimums, remainingExtra |-> extraFunds,
                             currentLoanIndex |-> 1, stop |-> FALSE],
                            SortLoans(activeLoans, strategy))

\* The result: loan id -> amount, for the active loans.
distributeBudgetAcrossLoans(list, monthlyAllocation, strategy) ==
    LET activeLoans == ActiveOf(list)
        ids         == {activeLoans[i].id : i \in 1..Len(activeLoans)}
        minimums    == [id \in ids |->
                          (CHOOSE l \in {activeLoans[i] : i \in 1..Len(activeLoans)} :
                              l.id = id).minimumPayment]
        totalMinimumPayments == calculateMonthlyObligation(list)
        extraFunds  == monthlyAllocation - totalMinimumPayments
    IN  IF extraFunds <= 0 \/ strategy = Null
        THEN minimums
        ELSE DistributeLoop([allocations |-> minimums, remainingExtra |-> extraFunds,
                             currentLoanIndex |-> 1, stop |-> FALSE],
                            SortLoans(activeLoans, strategy))

----------------------------------------------------------------------------
(* simulateLoanPayoff *)

\* const workingLoans = loans.map(...)
WorkingCopies(list) ==
    [i \in 1..Len(list) |->
        [id             |-> list[i].id,
         currentBalance |-> list[i].currentBalance,
         minimumPayment |-> list[i].minimumPayment,
         interestRate   |-> list[i].interestRate,
         startDate      |-> list[i].startDate,
         priorityOrder  |-> PriorityOf(list[i])]]

\* const projections = workingLoans.map(...)
InitialProjections(working) ==
    [i \in 1..Len(working) |->
        [loanId         |-> working[i].id,
         monthlyPayment |-> working[i].minimumPayment,
         monthsToPayoff |-> 0,
         totalInterest  |-> 0,
         payoffDate     |-> working[i].startDate]]

\* The three-way sort of the simulator, on the working copies.
SortWorking(working, strategy) ==
    IF strategy = "snowball"
    THEN StableSort(working, [i \in 1..Len(working) |-> working[i].currentBalance])
    ELSE IF strategy = "avalanche"
    THEN StableSort(working, [i \in 1..Len(working) |-> 0 - working[i].interestRate])
    ELSE StableSort(working, [i \in 1..Len(working) |-> working[i].priorityOrder])

\* DistributeExtra without "availableFunds -= additionalPayment".
RECURSIVE DistributeExtraNoDecrement(_, _, _)
DistributeExtraNoDecrement(s, sortedLoans, k) ==
    IF k > Len(sortedLoans) \/ s.availableFunds <= Cent THEN s
    ELSE LET loan              == sortedLoans[k]
             interest          == InterestOn(loan.currentBalance,
                                             calculateMonthlyRate(loan.interestRate))
             remainingCapacity == loan.currentBalance
                                      - Max(0, s.payments[loan.id] - interest)
             additionalPayment == IF remainingCapacity > Cent
                                  THEN Min(s.availableFunds, remainingCapacity)
                                  ELSE 0
         IN  DistributeExtraNoDecrement(
                 [payments       |-> [s.payments EXCEPT ![loan.id] = @ + additionalPayment],
                  availableFunds |-> s.availableFunds],
                 sortedLoans, k + 1)

\* for (const loan of sortedLoans) { ... }, from the k-th loan on;
\* s holds payments (paymentsThisMonth) and availableFunds.
RECURSIVE DistributeExtra(_, _, _)
DistributeExtra(s, sortedLoans, k) ==
    IF k > Len(sortedLoans) \/ s.availableFunds <= Cent THEN s
    ELSE LET loan              == sortedLoans[k]
             monthlyRate       == calculateMonthlyRate(loan.interestRate)
             interest          == InterestOn(loan.currentBalance, monthlyRate)
             currentPayment    == s.payments[loan.id]
             currentPrincipal  == Max(0, currentPayment - interest)
             maxPrincipal      == loan.currentBalance
             remainingCapacity == maxPrincipal - currentPrincipal
             additionalPayment == IF remainingCapacity > Cent
                                  THEN Min(s.availableFunds, remainingCapacity)
                                  ELSE 0
         IN  DistributeExtra(
                 [payments       |-> [s.payments EXCEPT ![loan.id] = @ + additionalPayment],
                  availableFunds |-> s.availableFunds - additionalPayment],
                 sortedLoans, k + 1)

\* MonthPayments handing the extra out of the payments ("-=" for "+=").
MonthPaymentsExtraTaken(working, monthlyAllocation, strategy) ==
    LET ids      == {working[i].id : i \in 1..Len(working)}
        minimums == [id \in ids |->
                        (CHOOSE l \in {working[i] : i \in 1..Len(working)} :
                            l.id = id).minimumPayment]
        availableFunds == monthlyAllocation - SumOver(minimums, ids)
        paid == DistributeExtra([payments |-> minimums, availableFunds |-> availableFunds],
                                SortWorking(working, strategy), 1).payments
    IN  IF availableFunds > Cent /\ strategy # Null
        THEN [id \in ids |-> minimums[id] - (paid[id] - minimums[id])]
        ELSE minimums

\* MonthPayments that takes a shortfall of the budget off the minimums, in
\* equal shares.
MonthPaymentsShortfallShared(working, monthlyAllocation, strategy) ==
    LET ids      == {working[i].id : i \in 1..Len(working)}
        minimums == [id \in ids |->
                        (CHOOSE l \in {working[i] : i \in 1..Len(working)} :
                            l.id = id).minimumPayment]
        availableFunds == monthlyAllocation - SumOver(minimums, ids)
    IN  IF availableFunds > Cent /\ strategy # Null
        THEN DistributeExtra([payments |-> minimums, availableFunds |-> availableFunds],
                             SortWorking(working, strategy), 1).payments
        ELSE IF availableFunds < 0
        THEN [id \in ids |->
                 Max(0, minimums[id] - ((0 - availableFunds) \div Cardinality(ids)))]
        ELSE minimums

\* The payments of one month (lines 258-297): the minimums, then the extra.
MonthPayments(working, monthlyAllocation, strategy) ==
    LET ids      == {working[i].id : i \in 1..Len(working)}
        minimums == [id \in ids |->
                        (CHOOSE l \in {working[i] : i \in 1..Len(working)} :
                            l.id = id).minimumPayment]
        availableFunds == monthlyAllocation - SumOver(minimums, ids)
    IN  IF availableFunds > Cent /\ strategy # Null
        THEN DistributeExtra([payments |-> minimums, availableFunds |-> availableFunds],
                             SortWorking(working, strategy), 1).payments
        ELSE minimums

\* The interest and the principal of one loan in one month (lines 303-306).
MonthInterest(loan) ==
    InterestOn(loan.currentBalance, calculateMonthlyRate(loan.interestRate))

\* MonthPrincipal without the floor at 0: interest the payment does not
\* cover is added to the balance.
MonthPrincipalUnfloored(loan, payment) ==
    Min(loan.currentBalance, payment - MonthInterest(loan))

\* MonthPrincipal without the cap at the balance.
MonthPrincipalUncapped(loan, payment) ==
    Max(0, payment - MonthInterest(loan))

MonthPrincipal(loan, payment) ==
    Min(loan.currentBalance, Max(0, payment - MonthInterest(loan)))

\* the part of a payment that goes to the month's interest and to principal
AppliedAmount(loan, payment) ==
    Min(payment, MonthInterest(loan) + MonthPrincipal(loan, payment))

\* loan.currentBalance = Math.max(0, loan.currentBalance - principal)
ApplyPayment(loan, payment) ==
    [loan EXCEPT !.currentBalance = Max(0, loan.currentBalance - MonthPrincipal(loan, payment))]

\* InputAfterMonth for a working set that shares its Loan records with the
\* caller: the balances written reach the caller's records.
InputAfterMonthShared(list, applied) ==
    [i \in 1..Len(list) |->
        IF \E k \in 1..Len(applied) : applied[k].id = list[i].id
        THEN [list[i] EXCEPT !.currentBalance =
                 applied[CHOOSE k \in 1..Len(applied) :
                             applied[k].id = list[i].id].currentBalance]
        ELSE list[i]]

\* The caller's Loan records after a month of the simulation.  The month
\* writes currentBalance of the working loans (line 309), which are records
\* made by loans.map (lines 229-236), and sorts a copy of the working list
\* (line 271): nothing the caller holds is written.
InputAfterMonth(list, applied) == list

\* UpdateProjection that records the 0-based month index (month for
\* month + 1).
UpdateProjectionZeroBased(projection, loan, applied, payment, m) ==
    LET charged == [projection EXCEPT
                       !.totalInterest  = @ + MonthInterest(loan),
                       !.monthlyPayment = Max(@, payment)]
    IN  IF applied.currentBalance <= Cent
        THEN [charged EXCEPT !.monthsToPayoff = m,
                             !.payoffDate = SetMonthPlus(loan.startDate, m)]
        ELSE charged

\* The projection of a loan after the month (lines 312-326); the loan is in
\* the working set, applied is the loan after its payment.
UpdateProjection(projection, loan, applied, payment, m) ==
    LET charged == [projection EXCEPT
                       !.totalInterest  = @ + MonthInterest(loan),
                       !.monthlyPayment = Max(@, payment)]
    IN  IF applied.currentBalance <= Cent
        THEN [charged EXCEPT !.monthsToPayoff = m + 1,
                             !.payoffDate = SetMonthPlus(loan.startDate, m + 1)]
        ELSE charged

\* CloseProjection that leaves the projection of an unpaid loan as it is.
CloseProjectionUnset(projection, loan, m) == projection

\* The projection of a loan left in the working set when the loop has
\* stopped (lines 338-345).
CloseProjection(projection, loan, m) ==
    IF projection.monthsToPayoff = 0
    THEN [projection EXCEPT !.monthsToPayoff = m,
                            !.payoffDate = SetMonthPlus(loan.startDate, m)]
    ELSE projection

\* The value simulateLoanPayoff returns from the state its loop stopped in.
SimulationResult(working, projs, m, interestPaid) ==
    LET inWorking(id) == \E i \in 1..Len(working) : working[i].id = id
        loanOf(id)    == working[CHOOSE i \in 1..Len(working) : working[i].id = id]
        closed == [i \in 1..Len(projs) |->
                      IF inWorking(projs[i].loanId)
                      THEN CloseProjection(projs[i], loanOf(projs[i].loanId), m)
                      ELSE projs[i]]
    IN  [projections   |-> closed,
         totalMonths   |-> MaxOver([i \in 1..Len(closed) |-> closed[i].monthsToPayoff],
                                   1..Len(closed)),
         totalInterest |-> RoundCents(interestPaid)]

----------------------------------------------------------------------------
(* The parts of the state a specification does not use *)

NoCalls == [p \in {} |-> 0]

NoPayments == [id \in {} |-> 0]

IdleLoan ==
    /\ balance = 0
    /\ interestRate = 0
    /\ startDate = 0
    /\ payoffCalls = NoCalls
    /\ interestCalls = NoCalls

IdleSimulation ==
    /\ simAllocation = 0
    /\ simStrategy = Null
    /\ workingLoans = <<>>
    /\ projections = <<>>
    /\ month = 0
    /\ iterations = 0
    /\ totalInterestPaid = 0
    /\ paymentsThisMonth = NoPayments
    /\ monthStart = <<>>
    /\ principalThisMonth = NoPayments
    /\ largestApplied = NoPayments

IdleProjection ==
    /\ minPaymentSimulation = <<>>
    /\ strategySimulation = <<>>
    /\ allocations = NoPayments
    /\ result = <<>>

IdleCalls ==
    /\ orderedLoans = <<>>
    /\ passedLoans = loans
    /\ firstResult = <<>>

IdleBudget ==
    /\ budgetRows = <<>>
    /\ budgetRequests = <<>>

IdlePayments ==
    /\ loanRow = <<>>
    /\ openingBalance = 0
    /\ paymentRows = <<>>
    /\ paymentRequests = <<>>

IdleOther ==
    /\ IdleCalls
    /\ IdleBudget
    /\ IdlePayments
    /\ baselineBalances = <<>>

IdleRequest ==
    /\ loans = <<>>
    /\ monthlyBudget = <<>>
    /\ strategyType = Null
    /\ pc = "idle"
    /\ IdleSimulation
    /\ IdleProjection
    /\ IdleOther

----------------------------------------------------------------------------
(* SpecLoan: the primitives applied to one loan with several payments *)

\* the most calls of the primitives made on one loan
MaxCalls == 2

LoanBalances == {0 - 100000, 0, 500000, 1000000}

LoanRates == {0, 6, 12, 24}

LoanPayments == {0 - 5000, 0, 5000, 5250, 10000, 50000, 1100000}

StartDates == {DaysFromCivil(2024, 1, 31), DaysFromCivil(2025, 6, 15)}

InitLoan ==
    /\ balance \in LoanBalances
    /\ interestRate \in LoanRates
    /\ startDate \in StartDates
    /\ payoffCalls = NoCalls
    /\ interestCalls = NoCalls
    /\ IdleRequest

CallsMade == Cardinality(DOMAIN payoffCalls) + Cardinality(DOMAIN interestCalls)

CallPayoffDate(p) ==
    /\ CallsMade < MaxCalls
    /\ p \notin DOMAIN payoffCalls
    /\ payoffCalls' = [q \in DOMAIN payoffCalls \cup {p} |->
                          IF q = p THEN PayoffRun(balance, p, interestRate, startDate)
                                   ELSE payoffCalls[q]]
    /\ UNCHANGED <<balance, interestRate, startDate, interestCalls>>
    /\ UNCHANGED <<requestVars, pc, simVars, projectionVars, otherVars>>

CallTotalInterest(p) ==
    /\ CallsMade < MaxCalls
    /\ p \notin DOMAIN interestCalls
    /\ interestCalls' = [q \in DOMAIN interestCalls \cup {p} |->
                            IF q = p THEN InterestRun(balance, p, interestRate)
                                     ELSE interestCalls[q]]
    /\ UNCHANGED <<balance, interestRate, startDate, payoffCalls>>
    /\ UNCHANGED <<requestVars, pc, simVars, projectionVars, otherVars>>

NextLoan ==
    \/ \E p \in LoanPayments : CallPayoffDate(p)
    \/ \E p \in LoanPayments : CallTotalInterest(p)

SpecLoan == InitLoan /\ [][NextLoan]_vars

----------------------------------------------------------------------------
(* Inputs of the allocator and of the projection request *)

\* the most loans in a projection request (the scenario's request of three
\* loans apart)
MaxLoans == 2

\* the most loans in a call of the allocator
MaxAllocLoans == 3

Strategies == {"snowball", "avalanche", "custom", Null}

LoanA == [currentBalance |-> 1000000, minimumPayment |-> 50000, interestRate |-> 12,
          startDate |-> DaysFromCivil(2024, 1, 31), priorityOrder |-> <<2>>,
          isActive |-> TRUE]

LoanB == [currentBalance |-> 500000, minimumPayment |-> 50000, interestRate |-> 24,
          startDate |-> DaysFromCivil(2025, 6, 15), priorityOrder |-> <<>>,
          isActive |-> TRUE]

LoanC == [currentBalance |-> 2000000, minimumPayment |-> 100000, interestRate |-> 6,
          startDate |-> DaysFromCivil(2024, 1, 31), priorityOrder |-> <<1>>,
          isActive |-> TRUE]

\* a loan whose minimum payment is below its monthly interest
LoanD == [currentBalance |-> 1000000, minimumPayment |-> 5000, interestRate |-> 12,
          startDate |-> DaysFromCivil(2025, 6, 15), priorityOrder |-> <<1>>,
          isActive |-> TRUE]

\* an inactive (paid-off) loan
LoanE == [currentBalance |-> 300000, minimumPayment |-> 30000, interestRate |-> 18,
          startDate |-> DaysFromCivil(2024, 1, 31), priorityOrder |-> <<3>>,
          isActive |-> FALSE]

\* a loan its minimum payment nearly pays off
LoanF == [currentBalance |-> 100000, minimumPayment |-> 60000, interestRate |-> 24,
          startDate |-> DaysFromCivil(2025, 6, 15), priorityOrder |-> <<2>>,
          isActive |-> TRUE]

\* a loan its minimum payment more than pays off
LoanG == [currentBalance |-> 40000, minimumPayment |-> 60000, interestRate |-> 12,
          startDate |-> DaysFromCivil(2024, 1, 31), priorityOrder |-> <<>>,
          isActive |-> TRUE]

\* A Loan record of the pool with its id: its position in the request.
WithId(t, i) ==
    [id |-> i, currentBalance |-> t.currentBalance, minimumPayment |-> t.minimumPayment,
     interestRate |-> t.interestRate, startDate |-> t.startDate,
     priorityOrder |-> t.priorityOrder, isActive |-> t.isActive]

\* the lists of at most most loans of the pool
LoanLists(pool, most) ==
    UNION {{[i \in 1..n |-> WithId(t[i], i)] : t \in [1..n -> pool]} : n \in 0..most}

\* the loans of the scenario of the specification's testable properties:
\* A(1000, 50, 12%), B(500, 50, 24%), C(2000, 100, 6%)
ScenarioLoans == <<WithId(LoanA, 1), WithId(LoanB, 2), WithId(LoanC, 3)>>

\* a loan whose minimum payment equals its monthly interest
LoanH == [currentBalance |-> 1000000, minimumPayment |-> 10000, interestRate |-> 12,
          startDate |-> DaysFromCivil(2024, 1, 31), priorityOrder |-> <<>>,
          isActive |-> TRUE]

\* a request with a loan its minimum more than pays off and a loan whose
\* minimum equals its interest
EdgeLoans == <<WithId(LoanG, 1), WithId(LoanH, 2)>>

\* a loan with a balance of 0.01
LoanI == [currentBalance |-> 10, minimumPayment |-> 5000, interestRate |-> 12,
          startDate |-> DaysFromCivil(2024, 1, 31), priorityOrder |-> <<>>,
          isActive |-> TRUE]

\* a request with a paid-off loan and a loan with a balance of 0.01
PennyLoans == <<WithId(LoanE, 1), WithId(LoanI, 2)>>

----------------------------------------------------------------------------
(* SpecAlloc: one call of distributeBudgetAcrossLoans *)

AllocPool == {LoanA, LoanB, LoanC, LoanD, LoanE, LoanF, LoanG}

AllocAmounts == {100000, 200000, 400000, 1500000, 5000000}

InitAlloc ==
    /\ IdleLoan
    /\ loans \in LoanLists(AllocPool, MaxAllocLoans)
    /\ monthlyBudget \in {<<a>> : a \in AllocAmounts}
    /\ strategyType \in Strategies
    /\ pc = "call"
    /\ IdleSimulation
    /\ IdleProjection
    /\ IdleOther

\* distributeBudgetAcrossLoans(loans, monthlyAllocation, strategyType)
CallDistribute ==
    /\ pc = "call"
    /\ allocations' = distributeBudgetAcrossLoans(loans, monthlyBudget[1], strategyType)
    /\ pc' = "returned"
    /\ UNCHANGED <<loanVars, requestVars, simVars>>
    /\ UNCHANGED <<minPaymentSimulation, strategySimulation, result, otherVars>>

\* applyStrategy(loans, strategyType)
CallApplyStrategy ==
    /\ pc = "call"
    /\ orderedLoans' = applyStrategy(loans, strategyType)
    /\ pc' = "ordered"
    /\ UNCHANGED <<loanVars, requestVars, simVars, projectionVars>>
    /\ UNCHANGED <<passedLoans, firstResult, budgetVars, paymentVars, historyVars>>

NextAlloc ==
    \/ CallDistribute
    \/ CallApplyStrategy

SpecAlloc == InitAlloc /\ [][NextAlloc]_vars

----------------------------------------------------------------------------
(* Spec: one call of calculateStrategyProjections *)

RequestPool == {LoanA, LoanB, LoanC, LoanD, LoanE}

Budgets == {<<>>, <<100000>>, <<200000>>, <<400000>>, <<5000000>>}

Init ==
    /\ IdleLoan
    /\ loans \in LoanLists(RequestPool, MaxLoans)
                   \cup {ScenarioLoans, EdgeLoans, PennyLoans}
    /\ monthlyBudget \in Budgets
    /\ strategyType \in Strategies
    /\ pc = "start"
    /\ IdleSimulation
    /\ IdleProjection
    /\ IdleOther

\* activeLoans without the filter.
activeLoansUnfiltered == loans

\* const activeLoans = loans.filter((loan) => loan.isActive)
activeLoans == ActiveOf(loans)

monthlyObligation == calculateMonthlyObligation(activeLoans)

monthlyAllocation ==
    IF monthlyBudget # <<>> THEN monthlyBudget[1] ELSE monthlyObligation

\* The entry of simulateLoanPayoff (lines 228-254).
EnterSimulation(list, allocation, strategy) ==
    /\ simAllocation' = allocation
    /\ simStrategy' = strategy
    /\ workingLoans' = WorkingCopies(list)
    /\ projections' = InitialProjections(WorkingCopies(list))
    /\ month' = 0
    /\ totalInterestPaid' = 0
    /\ paymentsThisMonth' = NoPayments
    /\ monthStart' = <<>>
    /\ principalThisMonth' = NoPayments
    /\ largestApplied' = [id \in {list[i].id : i \in 1..Len(list)} |-> 0]

\* The call of the minimum-payment simulation (lines 364-376).
Begin ==
    /\ pc = "start"
    /\ EnterSimulation(activeLoans, monthlyObligation, Null)
    /\ pc' = "minPayment"
    /\ UNCHANGED <<otherVars, loanVars, requestVars, iterations, projectionVars>>

\* LoopCondition with || for &&.
LoopConditionEither == Len(workingLoans) > 0 \/ month < maxMonths

\* while (workingLoans.length > 0 && month < maxMonths)
LoopCondition == Len(workingLoans) > 0 /\ month < maxMonths

\* One pass of the while loop of simulateLoanPayoff (lines 256-335).
SimulateMonthBody ==
    /\ pc \in {"minPayment", "strategy"}
    /\ LoopCondition
    /\ LET payments == MonthPayments(workingLoans, simAllocation, simStrategy)
           n        == Len(workingLoans)
           applied  == [i \in 1..n |->
                           ApplyPayment(workingLoans[i], payments[workingLoans[i].id])]
           indexOf(id) == CHOOSE i \in 1..n : workingLoans[i].id = id
       IN  /\ paymentsThisMonth' = payments
           /\ monthStart' = workingLoans
           /\ principalThisMonth' =
                  [id \in DOMAIN payments |->
                      MonthPrincipal(workingLoans[indexOf(id)], payments[id])]
           /\ largestApplied' =
                  [id \in DOMAIN largestApplied |->
                      IF id \in DOMAIN payments
                      THEN Max(largestApplied[id],
                               AppliedAmount(workingLoans[indexOf(id)], payments[id]))
                      ELSE largestApplied[id]]
           /\ totalInterestPaid' = totalInterestPaid +
                  SumOver([i \in 1..n |-> MonthInterest(workingLoans[i])], 1..n)
           /\ projections' =
                  [k \in 1..Len(projections) |->
                      IF \E i \in 1..n : workingLoans[i].id = projections[k].loanId
                      THEN LET i == indexOf(projections[k].loanId)
                           IN  UpdateProjection(projections[k], workingLoans[i], applied[i],
                                                payments[workingLoans[i].id], month)
                      ELSE projections[k]]
           /\ workingLoans' =
                  FilterSeq(applied, [i \in 1..n |-> ~(applied[i].currentBalance <= Cent)])
           /\ loans' = InputAfterMonth(loans, applied)
    /\ month' = month + 1
    /\ iterations' = iterations + 1
    /\ UNCHANGED <<callVars, budgetVars, paymentVars, loanVars, monthlyBudget, strategyType,
                   pc, simAllocation, simStrategy, projectionVars>>

SimulateMonth ==
    /\ SimulateMonthBody
    /\ UNCHANGED historyVars

\* SimulateMonth, with the balances a month of the minimum-payment
\* simulation leaves kept for the comparison with the strategy simulation.
SimulateMonthRecorded ==
    /\ SimulateMonthBody
    /\ baselineBalances' =
           IF pc = "minPayment"
           THEN Append(baselineBalances,
                       [id \in {workingLoans[i].id : i \in 1..Len(workingLoans)} |->
                           LET loan == workingLoans[CHOOSE i \in 1..Len(workingLoans) :
                                                       workingLoans[i].id = id]
                           IN  ApplyPayment(loan,
                                   MonthPayments(workingLoans, simAllocation,
                                                 simStrategy)[id]).currentBalance])
           ELSE baselineBalances

\* The minimum-payment simulation returns and the strategy simulation is
\* called (lines 337-353, 379-380).
ReturnMinPaymentCallStrategy ==
    /\ pc = "minPayment"
    /\ ~LoopCondition
    /\ strategyType # Null
    /\ minPaymentSimulation' =
           SimulationResult(workingLoans, projections, month, totalInterestPaid)
    /\ EnterSimulation(activeLoans, monthlyAllocation, strategyType)
    /\ pc' = "strategy"
    /\ UNCHANGED <<otherVars, loanVars, requestVars, iterations, strategySimulation, allocations,
                   result>>

\* The minimum-payment simulation returns and stands for the strategy
\* simulation too (lines 337-353, 381).
ReturnMinPaymentOnly ==
    /\ pc = "minPayment"
    /\ ~LoopCondition
    /\ strategyType = Null
    /\ minPaymentSimulation' =
           SimulationResult(workingLoans, projections, month, totalInterestPaid)
    /\ strategySimulation' =
           SimulationResult(workingLoans, projections, month, totalInterestPaid)
    /\ pc' = "allocate"
    /\ UNCHANGED <<otherVars, loanVars, requestVars, simVars, allocations, result>>

\* The strategy simulation returns (lines 337-353).
ReturnStrategy ==
    /\ pc = "strategy"
    /\ ~LoopCondition
    /\ strategySimulation' =
           SimulationResult(workingLoans, projections, month, totalInterestPaid)
    /\ pc' = "allocate"
    /\ UNCHANGED <<otherVars, loanVars, requestVars, simVars, minPaymentSimulation, allocations,
                   result>>

\* extraPaymentAllocations (lines 390-399) from what the allocator returned.
ExtraPaymentAllocations(list, allocs) ==
    LET extra(l) == (IF allocs[l.id] # 0 THEN allocs[l.id] ELSE l.minimumPayment)
                        - l.minimumPayment
        shown    == {i \in 1..Len(list) : extra(list[i]) > Milli}
    IN  [id \in {list[i].id : i \in shown} |->
            RoundCents(extra(list[CHOOSE i \in shown : list[i].id = id]))]

\* The allocation for display and the value returned (lines 384-408).
Aggregate ==
    /\ pc = "allocate"
    /\ allocations' = distributeBudgetAcrossLoans(activeLoans, monthlyAllocation,
                                                  strategyType)
    /\ result' =
           [loans           |-> strategySimulation.projections,
            totalMonths     |-> strategySimulation.totalMonths,
            totalInterest   |-> strategySimulation.totalInterest,
            interestSavings |-> minPaymentSimulation.totalInterest
                                    - strategySimulation.totalInterest,
            timeSavings     |-> minPaymentSimulation.totalMonths
                                    - strategySimulation.totalMonths,
            extraPaymentAllocations |->
                ExtraPaymentAllocations(activeLoans,
                    distributeBudgetAcrossLoans(activeLoans, monthlyAllocation,
                                                strategyType))]
    /\ pc' = "done"
    /\ UNCHANGED <<otherVars, loanVars, requestVars, simVars, minPaymentSimulation,
                   strategySimulation>>

Next ==
    \/ Begin
    \/ SimulateMonth
    \/ ReturnMinPaymentCallStrategy
    \/ ReturnMinPaymentOnly
    \/ ReturnStrategy
    \/ Aggregate

Spec == Init /\ [][Next]_vars

----------------------------------------------------------------------------
(* SpecRepeat: the caller makes the same call a second time *)

RepeatPool == {LoanA, LoanB, LoanE}

InitRepeat ==
    /\ Init
    /\ loans \in LoanLists(RepeatPool, MaxLoans)

\* calculateStrategyProjections(loans, monthlyBudget, strategyType), called
\* once more with the arguments of the call that has returned.
CallAgain ==
    /\ pc = "done"
    /\ firstResult = <<>>
    /\ firstResult' = <<result>>
    /\ pc' = "start"
    /\ simAllocation' = 0
    /\ simStrategy' = Null
    /\ workingLoans' = <<>>
    /\ projections' = <<>>
    /\ month' = 0
    /\ iterations' = 0
    /\ totalInterestPaid' = 0
    /\ paymentsThisMonth' = NoPayments
    /\ monthStart' = <<>>
    /\ principalThisMonth' = NoPayments
    /\ largestApplied' = NoPayments
    /\ minPaymentSimulation' = <<>>
    /\ strategySimulation' = <<>>
    /\ allocations' = NoPayments
    /\ result' = <<>>
    /\ UNCHANGED <<loanVars, requestVars, orderedLoans, passedLoans>>
    /\ UNCHANGED <<budgetVars, paymentVars, historyVars>>

NextRepeat ==
    \/ Next
    \/ CallAgain

SpecRepeat == InitRepeat /\ [][NextRepeat]_vars

----------------------------------------------------------------------------
(* SpecBudget: the budget routes, POST /api/budget, PUT and DELETE         *)
(* /api/budget/[id], run by requests in flight together.  A step is one    *)
(* database statement: a handler awaits each of its statements and other   *)
(* requests run in between.                                                *)

\* the most budget requests in flight together
MaxBudgetRequests == 2

\* the most rows table monthly_budget starts with
MaxBudgetRows == 2

\* validatedData.isActive: true, false, or absent from the body
BodyFlags == {"true", "false", "undefined"}

BudgetRequestKinds ==
    {[method |-> "POST", id |-> 0, isActive |-> a, pc |-> "start"] : a \in BodyFlags}
        \cup {[method |-> "PUT", id |-> i, isActive |-> a, pc |-> "start"] :
                  i \in 1..MaxBudgetRows, a \in BodyFlags}
        \cup {[method |-> "DELETE", id |-> i, isActive |-> "undefined", pc |-> "start"] :
                  i \in 1..MaxBudgetRows}

\* the rows with isActive = true
ActiveBudgets(rows) == {i \in 1..Len(rows) : rows[i].isActive}

\* the engine and its callers at rest
IdleEngine ==
    /\ IdleLoan
    /\ loans = <<>>
    /\ monthlyBudget = <<>>
    /\ strategyType = Null
    /\ pc = "idle"
    /\ IdleSimulation
    /\ IdleProjection
    /\ IdleCalls
    /\ baselineBalances = <<>>

InitBudget ==
    /\ IdleEngine
    /\ IdlePayments
    /\ budgetRows \in UNION {[1..n -> {[isActive |-> TRUE], [isActive |-> FALSE]}] :
                                n \in 0..MaxBudgetRows}
    /\ Cardinality(ActiveBudgets(budgetRows)) <= 1
    /\ budgetRequests \in [1..MaxBudgetRequests -> BudgetRequestKinds]

\* update(monthlyBudget).set({ isActive: false }).where(eq(isActive, true))
DeactivateAll(rows) == [i \in 1..Len(rows) |-> [rows[i] EXCEPT !.isActive = FALSE]]

BudgetStep(r, rows, position) ==
    /\ budgetRows' = rows
    /\ budgetRequests' = [budgetRequests EXCEPT ![r].pc = position]
    /\ UNCHANGED <<historyVars, loanVars, requestVars, pc, simVars, projectionVars, callVars,
                   paymentVars>>

\* POST: the deactivate-all update, made when the body has isActive true
\* (part_007 lines 66-71).
PostDeactivate(r) ==
    /\ budgetRequests[r].method = "POST"
    /\ budgetRequests[r].pc = "start"
    /\ budgetRequests[r].isActive = "true"
    /\ BudgetStep(r, DeactivateAll(budgetRows), "insert")

\* POST: the insert, isActive: validatedData.isActive ?? false (lines 73-81).
PostInsert(r) ==
    /\ budgetRequests[r].method = "POST"
    /\ \/ budgetRequests[r].pc = "insert"
       \/ budgetRequests[r].pc = "start" /\ budgetRequests[r].isActive # "true"
    /\ BudgetStep(r, Append(budgetRows,
                            [isActive |-> budgetRequests[r].isActive = "true"]),
                  "done")

\* PUT: the deactivate-all update, made when the body has isActive === true
\* (budget/[id]/route.ts lines 65-71).
PutDeactivate(r) ==
    /\ budgetRequests[r].method = "PUT"
    /\ budgetRequests[r].pc = "start"
    /\ budgetRequests[r].isActive = "true"
    /\ BudgetStep(r, DeactivateAll(budgetRows), "update")

\* PUT: the update of the row, isActive set when the body has it (lines
\* 73-94); no row of that id is a 404.
PutUpdate(r) ==
    /\ budgetRequests[r].method = "PUT"
    /\ \/ budgetRequests[r].pc = "update"
       \/ budgetRequests[r].pc = "start" /\ budgetRequests[r].isActive # "true"
    /\ BudgetStep(r,
                  IF budgetRequests[r].id \in 1..Len(budgetRows)
                         /\ budgetRequests[r].isActive # "undefined"
                  THEN [budgetRows EXCEPT ![budgetRequests[r].id].isActive =
                                              (budgetRequests[r].isActive = "true")]
                  ELSE budgetRows,
                  "done")

\* DELETE: the row is set inactive (lines 129-133).
DeleteBudget(r) ==
    /\ budgetRequests[r].method = "DELETE"
    /\ budgetRequests[r].pc = "start"
    /\ BudgetStep(r,
                  IF budgetRequests[r].id \in 1..Len(budgetRows)
                  THEN [budgetRows EXCEPT ![budgetRequests[r].id].isActive = FALSE]
                  ELSE budgetRows,
                  "done")

NextBudget ==
    \/ \E r \in DOMAIN budgetRequests : PostDeactivate(r)
    \/ \E r \in DOMAIN budgetRequests : PostInsert(r)
    \/ \E r \in DOMAIN budgetRequests : PutDeactivate(r)
    \/ \E r \in DOMAIN budgetRequests : PutUpdate(r)
    \/ \E r \in DOMAIN budgetRequests : DeleteBudget(r)

SpecBudget == InitBudget /\ [][NextBudget]_vars

----------------------------------------------------------------------------
(* SpecPayments: the payment routes, POST /api/payments and PUT            *)
(* /api/payments/[id], run by requests in flight together on the payments  *)
(* of one loan.  A step is one database statement.                         *)

\* the most payment requests in flight together
MaxPaymentRequests == 2

\* the most rows table upcoming_payments has for the loan at the start
MaxPaymentRows == 1

\* loans.current_balance at the start
OpeningBalances == {100000}

\* validatedData.amountPaid: absent (<<>>) or a number
PaidAmounts == {<<>>, <<40000>>, <<150000>>}

PaymentRequestKinds ==
    {[method |-> "POST", id |-> 0, status |-> st, amountPaid |-> a, pc |-> "start",
      wasPaid |-> FALSE, balanceRead |-> 0] :
         st \in {"paid", "pending"}, a \in PaidAmounts}
        \cup {[method |-> "PUT", id |-> i, status |-> st, amountPaid |-> a,
                pc |-> "start", wasPaid |-> FALSE, balanceRead |-> 0] :
                  i \in 1..(MaxPaymentRows + 1),
                  st \in {"paid", "pending", "undefined"}, a \in PaidAmounts}

InitPayments ==
    /\ IdleEngine
    /\ IdleBudget
    /\ openingBalance \in OpeningBalances
    /\ loanRow = [currentBalance |-> openingBalance, isActive |-> TRUE]
    /\ paymentRows \in UNION {[1..n -> {[amountPaid |-> <<>>, status |-> "pending"]}] :
                                 n \in 0..MaxPaymentRows}
    /\ paymentRequests \in [1..MaxPaymentRequests -> PaymentRequestKinds]

\* validatedData.status === 'paid' && validatedData.amountPaid
MarksPaid(request) ==
    /\ request.status = "paid"
    /\ request.amountPaid # <<>>
    /\ request.amountPaid[1] # 0

\* newBalance = Math.max(0, currentBalance - amountPaid), isActive:
\* !(newBalance <= 0.01)
LoanAfterPayment(balanceRead, amount) ==
    LET newBalance == Max(0, balanceRead - amount)
    IN  [currentBalance |-> newBalance, isActive |-> ~(newBalance <= Cent)]

PaymentStep(r, request) ==
    /\ paymentRequests' = [paymentRequests EXCEPT ![r] = request]
    /\ UNCHANGED <<historyVars, loanVars, requestVars, pc, simVars, projectionVars, callVars,
                   budgetVars, openingBalance>>

\* POST: the insert of the payment (payments/route.ts lines 111-121).
PostInsertPayment(r) ==
    /\ paymentRequests[r].method = "POST"
    /\ paymentRequests[r].pc = "start"
    /\ paymentRows' = Append(paymentRows,
                             [amountPaid |-> paymentRequests[r].amountPaid,
                              status     |-> paymentRequests[r].status])
    /\ PaymentStep(r, [paymentRequests[r] EXCEPT
                          !.pc = IF MarksPaid(paymentRequests[r])
                                 THEN "selectLoan" ELSE "done"])
    /\ UNCHANGED loanRow

\* POST: the select of the loan (lines 125-129).
PostSelectLoan(r) ==
    /\ paymentRequests[r].method = "POST"
    /\ paymentRequests[r].pc = "selectLoan"
    /\ PaymentStep(r, [paymentRequests[r] EXCEPT
                          !.balanceRead = loanRow.currentBalance,
                          !.pc = "updateLoan"])
    /\ UNCHANGED <<loanRow, paymentRows>>

\* POST: the update of the loan (lines 131-145).
PostUpdateLoan(r) ==
    /\ paymentRequests[r].method = "POST"
    /\ paymentRequests[r].pc = "updateLoan"
    /\ loanRow' = LoanAfterPayment(paymentRequests[r].balanceRead,
                                   paymentRequests[r].amountPaid[1])
    /\ PaymentStep(r, [paymentRequests[r] EXCEPT !.pc = "done"])
    /\ UNCHANGED paymentRows

\* PUT: the select of the payment (payments/[id]/route.ts lines 27-38); no
\* row of that id is a 404.
PutSelectPayment(r) ==
    /\ paymentRequests[r].method = "PUT"
    /\ paymentRequests[r].pc = "start"
    /\ PaymentStep(r,
           IF paymentRequests[r].id \in 1..Len(paymentRows)
           THEN [paymentRequests[r] EXCEPT
                    !.wasPaid = (paymentRows[paymentRequests[r].id].status = "paid"),
                    !.pc = "updatePayment"]
           ELSE [paymentRequests[r] EXCEPT !.pc = "done"])
    /\ UNCHANGED <<loanRow, paymentRows>>

\* PUT: the update of the payment with the fields the body has (lines
\* 40-52).
PutUpdatePayment(r) ==
    /\ paymentRequests[r].method = "PUT"
    /\ paymentRequests[r].pc = "updatePayment"
    /\ paymentRows' =
           [paymentRows EXCEPT ![paymentRequests[r].id] =
               [amountPaid |-> IF paymentRequests[r].amountPaid # <<>>
                               THEN paymentRequests[r].amountPaid ELSE @.amountPaid,
                status     |-> IF paymentRequests[r].status # "undefined"
                               THEN paymentRequests[r].status ELSE @.status]]
    /\ PaymentStep(r, [paymentRequests[r] EXCEPT
                          !.pc = IF MarksPaid(paymentRequests[r])
                                      /\ ~paymentRequests[r].wasPaid
                                 THEN "selectLoan" ELSE "done"])
    /\ UNCHANGED loanRow

\* PUT: the select of the loan (lines 60-64).
PutSelectLoan(r) ==
    /\ paymentRequests[r].method = "PUT"
    /\ paymentRequests[r].pc = "selectLoan"
    /\ PaymentStep(r, [paymentRequests[r] EXCEPT
                          !.balanceRead = loanRow.currentBalance,
                          !.pc = "updateLoan"])
    /\ UNCHANGED <<loanRow, paymentRows>>

\* PUT: the update of the loan (lines 66-80).
PutUpdateLoan(r) ==
    /\ paymentRequests[r].method = "PUT"
    /\ paymentRequests[r].pc = "updateLoan"
    /\ loanRow' = LoanAfterPayment(paymentRequests[r].balanceRead,
                                   paymentRequests[r].amountPaid[1])
    /\ PaymentStep(r, [paymentRequests[r] EXCEPT !.pc = "done"])
    /\ UNCHANGED paymentRows

NextPayments ==
    \/ \E r \in DOMAIN paymentRequests : PostInsertPayment(r)
    \/ \E r \in DOMAIN paymentRequests : PostSelectLoan(r)
    \/ \E r \in DOMAIN paymentRequests : PostUpdateLoan(r)
    \/ \E r \in DOMAIN paymentRequests : PutSelectPayment(r)
    \/ \E r \in DOMAIN paymentRequests : PutUpdatePayment(r)
    \/ \E r \in DOMAIN paymentRequests : PutSelectLoan(r)
    \/ \E r \in DOMAIN paymentRequests : PutUpdateLoan(r)

SpecPayments == InitPayments /\ [][NextPayments]_vars

----------------------------------------------------------------------------
(* Facts of a request used by the properties below *)

\* the Loan of the request with the given id
LoanById(id) == loans[CHOOSE i \in 1..Len(loans) : loans[i].id = id]

\* the sum of the minimum payments of the loans paid in the month simulated last
MinimumsThisMonth ==
    SumOver([id \in DOMAIN paymentsThisMonth |-> LoanById(id).minimumPayment],
            DOMAIN paymentsThisMonth)

PaidThisMonth == SumOver(paymentsThisMonth, DOMAIN paymentsThisMonth)

\* the strategy run was made with a budget equal to the sum of the minimums
NoSurplusRequest ==
    /\ pc = "done"
    /\ strategyType # Null
    /\ monthlyAllocation = monthlyObligation

\* no loan was ever paid more than its minimum in the strategy run
NeverPaidExtra ==
    \A k \in 1..Len(strategySimulation.projections) :
        strategySimulation.projections[k].monthlyPayment
            = LoanById(strategySimulation.projections[k].loanId).minimumPayment

----------------------------------------------------------------------------
(* C1 *)

----------------------------------------------------------------------------
(* C2 *)

\* C2 as stated: in every simulated month the payments assigned to the
\* working set sum to at most monthlyAllocation + 0.01, also when
\* monthlyAllocation is below the sum of the minimum payments.
C2_AsStated == PaidThisMonth <= simAllocation + Cent

\* C2 amended: in every simulated month the payments assigned to the working
\* set sum to at most max(monthlyAllocation, the sum of the working set's
\* minimum payments) + 0.01: a budget below the minimums does not reduce them.
C2_PaymentsWithinBudget ==
    PaidThisMonth <= Max(simAllocation, MinimumsThisMonth) + Cent

\* A month of a strategy run on a budget below the sum of the minimums of
\* the two or more loans of the working set, each paid its minimum.
C2_Witness ==
    /\ pc = "strategy"
    /\ Cardinality(DOMAIN paymentsThisMonth) >= 2
    /\ simAllocation < MinimumsThisMonth
    /\ PaidThisMonth = MinimumsThisMonth

----------------------------------------------------------------------------
(* C5 *)

\* this month's interest on a loan
InterestOf(l) == InterestOn(l.currentBalance, calculateMonthlyRate(l.interestRate))

\* the loan's allocation pays its balance off within 0.01, or the loan had
\* no remaining principal capacity to begin with
Saturated(l) ==
    \/ allocations[l.id] - InterestOf(l) >= l.currentBalance - Cent
    \/ l.currentBalance - Max(0, l.minimumPayment - InterestOf(l)) <= Cent

\* C5: after distributeBudgetAcrossLoans with a strategy and a positive
\* surplus, a loan later in strategy order has an allocation above its
\* minimum only if every loan before it is saturated.
C5_Waterfall ==
    (pc = "returned" /\ strategyType # Null
        /\ monthlyBudget[1] - calculateMonthlyObligation(loans) > 0) =>
        LET sorted == SortLoans(ActiveOf(loans), strategyType)
        IN  \A x, y \in 1..Len(sorted) :
                (x < y /\ allocations[sorted[y].id] > sorted[y].minimumPayment)
                    => Saturated(sorted[x])

\* The surplus passed over a loan whose minimum is below its interest, which
\* takes two rounds of the loop to saturate, and reached the next loan.
C5_Witness ==
    /\ pc = "returned"
    /\ strategyType # Null
    /\ LET sorted == SortLoans(ActiveOf(loans), strategyType)
       IN  /\ Len(sorted) >= 2
           /\ sorted[1].minimumPayment < InterestOf(sorted[1])
           /\ allocations[sorted[2].id] > sorted[2].minimumPayment

----------------------------------------------------------------------------
(* C9 *)

\* the request of the scenario: A, B, C with budget 400 under avalanche
ScenarioRequest ==
    /\ loans = ScenarioLoans
    /\ monthlyBudget = <<400000>>
    /\ strategyType = "avalanche"

\* the principal a loan can still take above its minimum this month
RemainingCapacity(l) == l.currentBalance - Max(0, l.minimumPayment - InterestOf(l))

\* C9: in the scenario B (id 2) gets the whole surplus of 200 and A and C get
\* no extra; and whenever the first loan in strategy order can take the
\* whole surplus, no other loan has an entry in extraPaymentAllocations.
C9_FirstLoanTakesSurplus ==
    pc = "done" =>
        /\ ScenarioRequest =>
              /\ DOMAIN result.extraPaymentAllocations = {2}
              /\ result.extraPaymentAllocations[2] = 200000
        /\ (strategyType # Null /\ Len(activeLoans) > 0
                /\ monthlyAllocation - monthlyObligation > 0) =>
              LET first == SortLoans(activeLoans, strategyType)[1]
              IN  RemainingCapacity(first) >= monthlyAllocation - monthlyObligation
                      => DOMAIN result.extraPaymentAllocations \subseteq {first.id}

\* The scenario's request has returned with an extra for B.
C9_Witness ==
    /\ pc = "done"
    /\ ScenarioRequest
    /\ 2 \in DOMAIN result.extraPaymentAllocations

----------------------------------------------------------------------------
(* C10 *)

\* C10: a request with no active loan makes no pass of the simulation loop
\* and returns totalMonths = 0, totalInterest = 0, no projection, savings of
\* 0 and an empty extraPaymentAllocations, whatever the budget and strategy.
C10_NoActiveLoans ==
    activeLoans = <<>> =>
        /\ iterations = 0
        /\ pc = "done" =>
              /\ result.totalMonths = 0
              /\ result.totalInterest = 0
              /\ result.loans = <<>>
              /\ result.interestSavings = 0
              /\ result.timeSavings = 0
              /\ DOMAIN result.extraPaymentAllocations = {}

\* A request of inactive loans only, with a budget and a strategy, returned.
C10_Witness ==
    /\ pc = "done"
    /\ loans # <<>>
    /\ activeLoans = <<>>
    /\ monthlyBudget # <<>>
    /\ strategyType # Null

----------------------------------------------------------------------------
(* The single-loan primitives: C3, C4, C6, C7, C8 *)

\* the payment is above the first month's interest: p > balance * monthlyRate
CoversInterest(p) == p * RateDen > balance * calculateMonthlyRate(interestRate)

\* C3 as stated: for a balance > 0 and payments 0 < p1 <= p2,
\* calculateTotalInterest with p2 returns no more than with p1, also when p1
\* does not exceed the first month's interest.
C3_AsStated ==
    \A p1, p2 \in DOMAIN interestCalls :
        (balance > 0 /\ 0 < p1 /\ p1 <= p2)
            => interestCalls[p2].total <= interestCalls[p1].total

\* C4 as stated: for a balance > 0 and payments 0 < p1 <= p2, the date
\* calculatePayoffDate returns for p2 is not later than the one for p1, also
\* when p1 does not cover the first month's interest and p2 reaches the
\* 600-month cap.
C4_AsStated ==
    \A p1, p2 \in DOMAIN payoffCalls :
        (balance > 0 /\ 0 < p1 /\ p1 <= p2)
            => payoffCalls[p2].date <= payoffCalls[p1].date

\* C6 as stated: for a balance > 0 and a payment above the first month's
\* interest, calculatePayoffDate and calculateTotalInterest both leave their
\* loop after at most 600 iterations.
C6_AsStated ==
    /\ \A p \in DOMAIN payoffCalls :
           (balance > 0 /\ CoversInterest(p))
               => payoffCalls[p].done /\ payoffCalls[p].iterations <= maxMonths
    /\ \A p \in DOMAIN interestCalls :
           (balance > 0 /\ CoversInterest(p))
               => interestCalls[p].done /\ interestCalls[p].iterations <= maxMonths

\* C7 as stated: for a balance > 0 and a payment 0 < p <= balance *
\* monthlyRate, calculatePayoffDate returns startDate advanced by 600 months,
\* the date it returns for a loan still unpaid at the 600-month cap.
C7_AsStated ==
    \A p \in DOMAIN payoffCalls :
        (balance > 0 /\ 0 < p /\ ~CoversInterest(p))
            => /\ payoffCalls[p].date = SetMonthPlus(startDate, maxMonths)
               /\ \A q \in DOMAIN payoffCalls :
                      (~payoffCalls[q].never /\ payoffCalls[q].months = maxMonths)
                          => payoffCalls[p].date = payoffCalls[q].date

\* C8 as stated: for a balance > 0, a rate > 0 and a payment 0 < p <=
\* balance * monthlyRate, calculateTotalInterest returns the interest of the
\* 600-month horizon, a positive amount, not 0.
C8_AsStated ==
    \A p \in DOMAIN interestCalls :
        (balance > 0 /\ interestRate > 0 /\ 0 < p /\ ~CoversInterest(p))
            => /\ interestCalls[p].done
               /\ interestCalls[p].total > 0

----------------------------------------------------------------------------
(* C11 *)

\* the loan of the working set with the given id, as the month left it
WorkingById(id) ==
    workingLoans[CHOOSE i \in 1..Len(workingLoans) : workingLoans[i].id = id]

StillWorking(id) == \E i \in 1..Len(workingLoans) : workingLoans[i].id = id

\* C11: in every state of simulateLoanPayoff every working loan has a
\* balance >= 0, and the principal applied to a loan in a month is never
\* more than the balance the loan had at the start of that month, whatever
\* payment it was assigned: the balance it is left with is the balance at
\* the start less that principal.
C11_BalancesNonNegative ==
    /\ \A i \in 1..Len(workingLoans) : workingLoans[i].currentBalance >= 0
    /\ \A i \in 1..Len(monthStart) :
           LET loan      == monthStart[i]
               principal == principalThisMonth[loan.id]
           IN  /\ principal >= 0
               /\ principal <= loan.currentBalance
               /\ IF StillWorking(loan.id)
                  THEN WorkingById(loan.id).currentBalance
                           = loan.currentBalance - principal
                  ELSE loan.currentBalance - principal <= Cent

\* a loan was assigned a payment larger than its balance and interest, and
\* the principal applied to it was its whole balance
C11_Witness ==
    /\ pc \in {"minPayment", "strategy"}
    /\ \E i \in 1..Len(monthStart) :
           LET loan == monthStart[i]
           IN  /\ loan.currentBalance > 0
               /\ paymentsThisMonth[loan.id] - MonthInterest(loan) > loan.currentBalance
               /\ principalThisMonth[loan.id] = loan.currentBalance
               /\ ~StillWorking(loan.id)

----------------------------------------------------------------------------
(* C12 *)

\* the ids of the active loans of the request
ActiveIds == {loans[i].id : i \in {j \in 1..Len(loans) : loans[j].isActive}}

\* C12: in every simulated month every loan of the working set is assigned
\* a payment of at least its minimumPayment, and distributeBudgetAcrossLoans
\* gives every active loan at least its minimumPayment, for every budget
\* (also one below the sum of the minimums) and every strategy.
C12_AtLeastMinimum ==
    /\ DOMAIN paymentsThisMonth = {monthStart[i].id : i \in 1..Len(monthStart)}
    /\ \A id \in DOMAIN paymentsThisMonth :
           paymentsThisMonth[id] >= LoanById(id).minimumPayment
    /\ pc = "done" =>
           /\ DOMAIN allocations = ActiveIds
           /\ \A id \in ActiveIds : allocations[id] >= LoanById(id).minimumPayment

\* a request with a strategy and a budget below the sum of the minimums of
\* its active loans has been answered: the last simulated month and the
\* allocator gave the loans their minimums
C12_Witness ==
    /\ pc = "done"
    /\ strategyType # Null
    /\ monthlyBudget # <<>>
    /\ monthlyAllocation < monthlyObligation
    /\ Cardinality(ActiveIds) >= 2
    /\ paymentsThisMonth # NoPayments
    /\ \A id \in ActiveIds : allocations[id] = LoanById(id).minimumPayment

----------------------------------------------------------------------------
(* C13 *)

\* the loop of the running simulateLoanPayoff call has stopped
LoopStopped == pc \in {"minPayment", "strategy"} /\ ~LoopCondition

\* what the running simulateLoanPayoff call returns once its loop has stopped
Returned == SimulationResult(workingLoans, projections, month, totalInterestPaid)

MonthsWithinHorizon(simulation) ==
    /\ simulation.totalMonths <= maxMonths
    /\ \A k \in 1..Len(simulation.projections) :
           /\ simulation.projections[k].monthsToPayoff >= 1
           /\ simulation.projections[k].monthsToPayoff <= maxMonths

\* C13: simulateLoanPayoff stops after at most 600 simulated months; on
\* return the monthsToPayoff of every loan is between 1 and 600, and a loan
\* whose balance is still above 0.01 when the loop stops has monthsToPayoff
\* = 600.
C13_WithinHorizon ==
    /\ month <= maxMonths
    /\ iterations <= 2 * maxMonths
    /\ LoopStopped =>
           /\ MonthsWithinHorizon(Returned)
           /\ \A k \in 1..Len(Returned.projections) :
                  LET id == Returned.projections[k].loanId
                  IN  (StillWorking(id) /\ WorkingById(id).currentBalance > Cent)
                          => Returned.projections[k].monthsToPayoff = maxMonths
    /\ minPaymentSimulation # <<>> => MonthsWithinHorizon(minPaymentSimulation)
    /\ strategySimulation # <<>> => MonthsWithinHorizon(strategySimulation)

\* the loop has stopped at the horizon with a loan unpaid and another loan
\* paid off before
C13_Witness ==
    /\ LoopStopped
    /\ month = maxMonths
    /\ \E k \in 1..Len(Returned.projections) :
           /\ StillWorking(Returned.projections[k].loanId)
           /\ WorkingById(Returned.projections[k].loanId).currentBalance > Cent
           /\ Returned.projections[k].monthsToPayoff = maxMonths
    /\ \E k \in 1..Len(Returned.projections) :
           Returned.projections[k].monthsToPayoff < maxMonths

----------------------------------------------------------------------------
(* C14 *)

\* the sum of the minimum payments of the active loans, added up loan by loan
RECURSIVE ActiveMinimums(_, _)
ActiveMinimums(list, i) ==
    IF i > Len(list) THEN 0
    ELSE (IF list[i].isActive THEN list[i].minimumPayment ELSE 0)
             + ActiveMinimums(list, i + 1)

\* C14: when monthlyAllocation is less than or equal to the sum of the
\* active loans' minimum payments, distributeBudgetAcrossLoans returns
\* exactly minimumPayment for every active loan, for every strategy.
C14_InsufficientBudget ==
    (pc = "returned" /\ monthlyBudget[1] <= ActiveMinimums(loans, 1)) =>
        /\ DOMAIN allocations = ActiveIds
        /\ \A id \in ActiveIds : allocations[id] = LoanById(id).minimumPayment

\* the allocator has returned for a strategy, a budget strictly below the
\* sum of the minimums and two or more active loans
C14_Witness ==
    /\ pc = "returned"
    /\ strategyType # Null
    /\ monthlyBudget[1] < ActiveMinimums(loans, 1)
    /\ Cardinality(ActiveIds) >= 2
    /\ \A id \in ActiveIds : allocations[id] = LoanById(id).minimumPayment

----------------------------------------------------------------------------
(* C15 *)

\* the place of a loan in the input list
InputIndex(id) == CHOOSE i \in 1..Len(loans) : loans[i].id = id

\* the key the strategy orders by, smaller first
StrategyKey(loan, strategy) ==
    IF strategy = "snowball" THEN loan.currentBalance
    ELSE IF strategy = "avalanche" THEN 0 - loan.interestRate
    ELSE IF strategy = "custom"
    THEN (IF loan.priorityOrder = <<>> THEN 999 ELSE loan.priorityOrder[1])
    ELSE 0

\* C15: applyStrategy returns a permutation of exactly the isActive loans of
\* its input: ascending currentBalance for snowball, descending interestRate
\* for avalanche, ascending priorityOrder (a missing priority counts as 999)
\* for custom, loans of equal key in input order; for a null strategy the
\* active loans in input order.
C15_ApplyStrategy ==
    pc = "ordered" =>
        /\ Len(orderedLoans) = Cardinality(ActiveIds)
        /\ {orderedLoans[k].id : k \in 1..Len(orderedLoans)} = ActiveIds
        /\ \A k \in 1..Len(orderedLoans) :
               orderedLoans[k] = LoanById(orderedLoans[k].id)
        /\ \A x, y \in 1..Len(orderedLoans) :
               x < y =>
                   LET kx == StrategyKey(orderedLoans[x], strategyType)
                       ky == StrategyKey(orderedLoans[y], strategyType)
                   IN  /\ kx <= ky
                       /\ kx = ky => InputIndex(orderedLoans[x].id)
                                         < InputIndex(orderedLoans[y].id)

\* applyStrategy has returned for custom: two loans without a priority kept
\* their input order behind a loan with a priority that came after one of
\* them in the input
C15_Witness ==
    /\ pc = "ordered"
    /\ strategyType = "custom"
    /\ \E x, y, z \in 1..Len(orderedLoans) :
           /\ x < y /\ y < z
           /\ orderedLoans[x].priorityOrder # <<>>
           /\ orderedLoans[y].priorityOrder = <<>>
           /\ orderedLoans[z].priorityOrder = <<>>
           /\ InputIndex(orderedLoans[y].id) < InputIndex(orderedLoans[x].id)

----------------------------------------------------------------------------
(* C16 *)

\* each active loan of the request once, and no other loan
OnePerActiveLoan(projs) ==
    /\ Len(projs) = Cardinality(ActiveIds)
    /\ {projs[k].loanId : k \in 1..Len(projs)} = ActiveIds

\* C16: calculateStrategyProjections ignores inactive loans: the result has
\* exactly one PaymentProjection per active input loan and none for an
\* inactive loan, the minimum payment of an inactive loan is not counted in
\* the baseline budget, and no extraPaymentAllocations entry exists for an
\* inactive loan.
C16_InactiveIgnored ==
    /\ pc = "minPayment" =>
           /\ simAllocation = ActiveMinimums(loans, 1)
           /\ OnePerActiveLoan(projections)
    /\ pc = "strategy" => OnePerActiveLoan(projections)
    /\ pc = "done" =>
           /\ OnePerActiveLoan(result.loans)
           /\ DOMAIN result.extraPaymentAllocations \subseteq ActiveIds

\* a request with an inactive loan among active ones has been answered, with
\* an extra payment shown
C16_Witness ==
    /\ pc = "done"
    /\ \E i \in 1..Len(loans) : ~loans[i].isActive
    /\ ActiveIds # {}
    /\ Len(result.loans) < Len(loans)
    /\ DOMAIN result.extraPaymentAllocations # {}

----------------------------------------------------------------------------
(* C17 *)

\* a request with a strategy and a monthly budget below the sum of the
\* minimum payments of its active loans has been answered
ShortBudgetRequest ==
    /\ pc = "done"
    /\ strategyType # Null
    /\ monthlyBudget # <<>>
    /\ monthlyBudget[1] < ActiveMinimums(loans, 1)
    /\ ActiveIds # {}

----------------------------------------------------------------------------
(* C18 *)

----------------------------------------------------------------------------
(* C19 *)

\* C19 as stated: after any sequence or interleaving of budget requests
\* (POST /api/budget, PUT and DELETE /api/budget/[id]) at most one
\* monthly_budget row has isActive = true.
C19_AsStated == Cardinality(ActiveBudgets(budgetRows)) <= 1

----------------------------------------------------------------------------
(* C20 *)

\* every payment request has been answered
PaymentsAnswered ==
    \A r \in DOMAIN paymentRequests : paymentRequests[r].pc = "done"

\* the sum of amountPaid of the payments of the loan with status paid
PaidSum ==
    SumOver([i \in 1..Len(paymentRows) |->
                IF paymentRows[i].status = "paid" /\ paymentRows[i].amountPaid # <<>>
                THEN paymentRows[i].amountPaid[1] ELSE 0],
            1..Len(paymentRows))

\* C20 as stated: every payment recorded as paid reduces the balance of its
\* loan exactly once: after any sequence or interleaving of POST
\* /api/payments and PUT /api/payments/[id] requests the loan's
\* currentBalance is max(0, initial balance - sum of amountPaid of its paid
\* payments), is never negative, and the loan is inactive exactly when the
\* balance is <= 0.01.
C20_AsStated ==
    /\ loanRow.currentBalance >= 0
    /\ PaymentsAnswered =>
           /\ loanRow.currentBalance = Max(0, openingBalance - PaidSum)
           /\ loanRow.isActive <=> ~(loanRow.currentBalance <= Cent)

----------------------------------------------------------------------------
(* C21 *)

\* the sum of the minimum payments of the loans the month simulated last
\* started with
StartMinimums ==
    SumOver([i \in 1..Len(monthStart) |-> monthStart[i].minimumPayment],
            1..Len(monthStart))

\* the extra distributed in the month simulated last
ExtraThisMonth == PaidThisMonth - StartMinimums

\* the month simulated last, of a strategy run with a budget that covers the
\* initial minimums, is the month after one in which a loan was retired
MonthAfterRetirement ==
    /\ pc = "strategy"
    /\ simAllocation >= monthlyObligation
    /\ month >= 2
    /\ monthStart # <<>>
    /\ \E k \in 1..Len(projections) : projections[k].monthsToPayoff = month - 1

\* C21: in a strategy run with a budget >= the initial sum of the minimums,
\* in the month after a loan was retired the minimum of the retired loan is
\* available as extra: the extra distributed equals the budget less the sum
\* of the remaining loans' minimums (within 0.01), unless every remaining
\* loan took its whole principal capacity.
C21_Rollover ==
    MonthAfterRetirement =>
        LET available == simAllocation - StartMinimums
        IN  /\ \A k \in 1..Len(projections) :
                   projections[k].monthsToPayoff = month - 1
                       => available >= LoanById(projections[k].loanId).minimumPayment
            /\ ExtraThisMonth <= available
            /\ \/ ExtraThisMonth >= available - Cent
               \/ \A i \in 1..Len(monthStart) :
                      paymentsThisMonth[monthStart[i].id] - monthStart[i].minimumPayment
                          >= RemainingCapacity(monthStart[i]) - Cent

\* with a budget equal to the initial minimums, the minimum of the loan
\* retired the month before was distributed as extra
C21_Witness ==
    /\ MonthAfterRetirement
    /\ simAllocation = monthlyObligation
    /\ ExtraThisMonth = simAllocation - StartMinimums
    /\ \E k \in 1..Len(projections) :
           /\ projections[k].monthsToPayoff = month - 1
           /\ ExtraThisMonth = LoanById(projections[k].loanId).minimumPayment

----------------------------------------------------------------------------
(* C22 *)

\* the working set the month simulated last started with, as the Loan
\* records distributeBudgetAcrossLoans takes: the balances are the current ones
MonthStartLoans ==
    [i \in 1..Len(monthStart) |->
        [LoanById(monthStart[i].id) EXCEPT
            !.currentBalance = monthStart[i].currentBalance]]

\* C22 as stated: in every simulated month the payments simulateLoanPayoff
\* assigns to the loans of the working set are equal, loan by loan, to what
\* distributeBudgetAcrossLoans returns for that working set with its
\* current balances, the same monthly budget and the same strategy.
C22_AsStated ==
    (pc \in {"minPayment", "strategy"} /\ monthStart # <<>>) =>
        LET allocated == distributeBudgetAcrossLoans(MonthStartLoans, simAllocation,
                                                     simStrategy)
        IN  /\ DOMAIN allocated = DOMAIN paymentsThisMonth
            /\ \A id \in DOMAIN paymentsThisMonth :
                   paymentsThisMonth[id] = allocated[id]

----------------------------------------------------------------------------
(* C23 *)

\* the allocator has returned for a strategy and a surplus > 0
SurplusAllocated ==
    /\ pc = "returned"
    /\ strategyType # Null
    /\ monthlyBudget[1] - ActiveMinimums(loans, 1) > 0

\* the extra the allocator handed out, over all active loans
TotalExtra ==
    SumOver([id \in ActiveIds |-> allocations[id] - LoanById(id).minimumPayment],
            ActiveIds)

\* the extra a loan can absorb: what pays its interest and its whole
\* balance, less its minimum
PayoffCapacity(l) == Max(0, l.currentBalance + InterestOf(l) - l.minimumPayment)

\* no loan's principal portion exceeds its balance unless its minimum alone
\* already does
PrincipalWithinBalance ==
    \A id \in ActiveIds :
        \/ allocations[id] - InterestOf(LoanById(id)) <= LoanById(id).currentBalance
        \/ LoanById(id).minimumPayment - InterestOf(LoanById(id))
               > LoanById(id).currentBalance

\* C23 as stated: with a strategy and a surplus S > 0 the total extra
\* distributeBudgetAcrossLoans hands out equals min(S, sum over the active
\* loans of balance - max(0, minimumPayment - interest)) within 0.01 per
\* loan (a loan its minimum more than pays off has capacity 0), and no
\* loan's principal portion exceeds its balance unless its minimum alone
\* already does.
C23_AsStated ==
    SurplusAllocated =>
        LET S        == monthlyBudget[1] - ActiveMinimums(loans, 1)
            capacity == SumOver([id \in ActiveIds |->
                                    Max(0, RemainingCapacity(LoanById(id)))],
                                ActiveIds)
            n        == Cardinality(ActiveIds)
        IN  /\ TotalExtra <= Min(S, capacity) + n * Cent
            /\ TotalExtra >= Min(S, capacity) - n * Cent
            /\ PrincipalWithinBalance

\* C23 amended: with a strategy and a surplus S > 0 the total extra equals
\* min(S, sum over the active loans of max(0, balance + this month's
\* interest - minimumPayment)) within 0.01 per loan: a loan whose minimum
\* is below its interest also absorbs the interest the minimum leaves
\* unpaid; no loan's principal portion exceeds its balance unless its
\* minimum alone already does.
C23_ExtraHandedOut ==
    SurplusAllocated =>
        LET S        == monthlyBudget[1] - ActiveMinimums(loans, 1)
            capacity == SumOver([id \in ActiveIds |-> PayoffCapacity(LoanById(id))],
                                ActiveIds)
            n        == Cardinality(ActiveIds)
        IN  /\ TotalExtra <= Min(S, capacity)
            /\ TotalExtra >= Min(S, capacity) - n * Cent
            /\ PrincipalWithinBalance

\* a surplus larger than the loans can absorb was handed to a loan whose
\* minimum is below its interest and to another loan
C23_Witness ==
    /\ SurplusAllocated
    /\ Cardinality(ActiveIds) >= 2
    /\ TotalExtra < monthlyBudget[1] - ActiveMinimums(loans, 1)
    /\ \E id \in ActiveIds :
           /\ LoanById(id).minimumPayment < InterestOf(LoanById(id))
           /\ allocations[id] = LoanById(id).currentBalance + InterestOf(LoanById(id))
    /\ \E id \in ActiveIds :
           /\ LoanById(id).minimumPayment > InterestOf(LoanById(id))
           /\ allocations[id] > LoanById(id).minimumPayment

----------------------------------------------------------------------------
(* C24 *)

\* an active loan with a balance above 0.01 whose minimum payment does not
\* exceed its monthly interest
MinimumBelowInterest(l) ==
    /\ l.isActive
    /\ l.currentBalance > Cent
    /\ l.minimumPayment <= InterestOf(l)

\* the projection of a loan in a list of projections
ProjectionOf(projs, id) == projs[CHOOSE k \in 1..Len(projs) : projs[k].loanId = id]

\* C24: in the baseline run a loan with a balance > 0.01 whose minimumPayment
\* does not exceed its monthly interest is never removed from the working
\* set: its balance is the same in every month, it ends with monthsToPayoff
\* = 600, and its totalInterest is 600 times its monthly interest.
C24_NeverRetired ==
    \A i \in 1..Len(loans) :
        MinimumBelowInterest(loans[i]) =>
            /\ pc = "minPayment" =>
                   /\ StillWorking(loans[i].id)
                   /\ WorkingById(loans[i].id).currentBalance = loans[i].currentBalance
                   /\ ProjectionOf(projections, loans[i].id).totalInterest
                          = month * InterestOf(loans[i])
            /\ minPaymentSimulation # <<>> =>
                   LET p == ProjectionOf(minPaymentSimulation.projections, loans[i].id)
                   IN  /\ p.monthsToPayoff = maxMonths
                       /\ p.totalInterest = maxMonths * InterestOf(loans[i])
                       /\ minPaymentSimulation.totalMonths = maxMonths

\* the baseline run has returned for a loan whose minimum is below its
\* interest and a loan that was paid off
C24_Witness ==
    /\ minPaymentSimulation # <<>>
    /\ \E i \in 1..Len(loans) :
           /\ MinimumBelowInterest(loans[i])
           /\ InterestOf(loans[i]) > 0
    /\ \E k \in 1..Len(minPaymentSimulation.projections) :
           minPaymentSimulation.projections[k].monthsToPayoff < maxMonths

----------------------------------------------------------------------------
(* C25 *)

\* a pass of the simulation loop is made
MonthSimulated ==
    /\ pc \in {"minPayment", "strategy"}
    /\ pc' = pc
    /\ month' = month + 1

\* C25: the monthsToPayoff of a loan is the 1-based index of the first
\* simulated month at whose end its balance is <= 0.01; the loan is removed
\* from the working set at the end of that month, and afterwards it is never
\* paid again and its projection is never changed, the return included.
C25_Retirement ==
    [][/\ MonthSimulated =>
            \A k \in 1..Len(projections) :
                LET id == projections[k].loanId
                    leftInSet == \E i \in 1..Len(workingLoans') : workingLoans'[i].id = id
                IN  IF projections[k].monthsToPayoff # 0
                    THEN /\ ~StillWorking(id)
                         /\ id \notin DOMAIN paymentsThisMonth'
                         /\ ~leftInSet
                         /\ projections'[k] = projections[k]
                    ELSE /\ StillWorking(id)
                         /\ id \in DOMAIN paymentsThisMonth'
                         /\ IF WorkingById(id).currentBalance - principalThisMonth'[id]
                                   <= Cent
                            THEN /\ projections'[k].monthsToPayoff = month + 1
                                 /\ ~leftInSet
                            ELSE /\ projections'[k].monthsToPayoff = 0
                                 /\ leftInSet
       /\ LoopStopped =>
            \A k \in 1..Len(projections) :
                projections[k].monthsToPayoff # 0
                    => Returned.projections[k] = projections[k]]_vars

\* a loan was retired in an earlier month with a payment above its minimum,
\* and the month simulated last paid the loans left
C25_Witness ==
    /\ pc = "strategy"
    /\ paymentsThisMonth # NoPayments
    /\ workingLoans # <<>>
    /\ \E k \in 1..Len(projections) :
           /\ projections[k].monthsToPayoff > 0
           /\ projections[k].monthsToPayoff < month
           /\ projections[k].monthlyPayment
                  > LoanById(projections[k].loanId).minimumPayment
           /\ projections[k].loanId \notin DOMAIN paymentsThisMonth

----------------------------------------------------------------------------
(* C26 *)

\* C26 as stated: for every loan the monthlyPayment of its PaymentProjection
\* equals the largest amount applied to the loan, to interest and principal,
\* in any simulated month; it never exceeds the loan's starting balance plus
\* one month's interest on it.
C26_AsStated ==
    LoopStopped =>
        \A k \in 1..Len(Returned.projections) :
            LET p == Returned.projections[k]
            IN  /\ p.monthlyPayment = largestApplied[p.loanId]
                /\ p.monthlyPayment
                       <= LoanById(p.loanId).currentBalance + InterestOf(LoanById(p.loanId))

----------------------------------------------------------------------------
(* C27 *)

\* C27: for degenerate inputs (monthlyPayment <= 0 or balance <= 0)
\* calculatePayoffDate returns startDate unchanged and calculateTotalInterest
\* returns 0, without a pass of their loops.
C27_DegenerateInputs ==
    /\ \A p \in DOMAIN payoffCalls :
           (p <= 0 \/ balance <= 0)
               => /\ payoffCalls[p].date = startDate
                  /\ payoffCalls[p].iterations = 0
    /\ \A p \in DOMAIN interestCalls :
           (p <= 0 \/ balance <= 0)
               => /\ interestCalls[p].total = 0
                  /\ interestCalls[p].iterations = 0

\* both primitives were called with a payment of 0 on a loan with a balance
\* and a rate above 0
C27_Witness ==
    /\ balance > 0
    /\ interestRate > 0
    /\ 0 \in DOMAIN payoffCalls
    /\ 0 \in DOMAIN interestCalls
    /\ payoffCalls[0].date = startDate
    /\ interestCalls[0].total = 0

----------------------------------------------------------------------------
(* SpecNoStrategy: calculateStrategyProjections is called with no strategy *)
(* and, once it has returned, with the same loans and another budget       *)

InitNoStrategy ==
    /\ Init
    /\ strategyType = Null
    /\ loans \in LoanLists(RepeatPool, MaxLoans) \cup {ScenarioLoans, EdgeLoans}

\* calculateStrategyProjections(loans, otherBudget, null) after
\* calculateStrategyProjections(loans, monthlyBudget, null) has returned.
CallWithOtherBudget ==
    /\ pc = "done"
    /\ firstResult = <<>>
    /\ firstResult' = <<result>>
    /\ \E otherBudget \in Budgets \ {monthlyBudget} : monthlyBudget' = otherBudget
    /\ pc' = "start"
    /\ simAllocation' = 0
    /\ simStrategy' = Null
    /\ workingLoans' = <<>>
    /\ projections' = <<>>
    /\ month' = 0
    /\ iterations' = 0
    /\ totalInterestPaid' = 0
    /\ paymentsThisMonth' = NoPayments
    /\ monthStart' = <<>>
    /\ principalThisMonth' = NoPayments
    /\ largestApplied' = NoPayments
    /\ minPaymentSimulation' = <<>>
    /\ strategySimulation' = <<>>
    /\ allocations' = NoPayments
    /\ result' = <<>>
    /\ UNCHANGED <<loanVars, loans, strategyType, orderedLoans, passedLoans>>
    /\ UNCHANGED <<budgetVars, paymentVars, historyVars>>

NextNoStrategy ==
    \/ Begin
    \/ SimulateMonth
    \/ ReturnMinPaymentOnly
    \/ Aggregate
    \/ CallWithOtherBudget

SpecNoStrategy == InitNoStrategy /\ [][NextNoStrategy]_vars

----------------------------------------------------------------------------
(* C28 *)

\* C28: with strategyType null calculateStrategyProjections returns
\* interestSavings 0, timeSavings 0 and an empty extraPaymentAllocations for
\* every loan set and every budget, and the call with another budget returns
\* a result equal in every field.
C28_NoStrategy ==
    (pc = "done" /\ strategyType = Null)
        => /\ result.interestSavings = 0
           /\ result.timeSavings = 0
           /\ DOMAIN result.extraPaymentAllocations = {}
           /\ firstResult # <<>> => result = firstResult[1]

\* the second call has returned, with a budget far above the minimums of two
\* active loans where the first call had another budget
C28_Witness ==
    /\ pc = "done"
    /\ strategyType = Null
    /\ firstResult # <<>>
    /\ monthlyBudget = <<5000000>>
    /\ Cardinality(ActiveIds) >= 2
    /\ monthlyBudget[1] > monthlyObligation
    /\ result.totalMonths > 1
    /\ result.totalInterest > 0

----------------------------------------------------------------------------
(* C29 *)

\* the loop of the minimum-payment simulation has stopped and the simulation
\* is about to return
BaselineReturning == pc = "minPayment" /\ ~LoopCondition

\* the value the minimum-payment simulation is about to return
BaselineResult == SimulationResult(workingLoans, projections, month, totalInterestPaid)

\* the request has one active loan, its minimum payment exceeds its first
\* month's interest and the minimum-payment simulation has paid it off
SingleLoanPaidOff ==
    /\ BaselineReturning
    /\ Len(activeLoans) = 1
    /\ activeLoans[1].minimumPayment * RateDen >
           activeLoans[1].currentBalance * calculateMonthlyRate(activeLoans[1].interestRate)
    /\ Len(workingLoans) = 0

\* the minimum-payment simulation and the single-loan primitives agree on
\* the one active loan
PrimitivesAgree ==
    LET l == activeLoans[1]
    IN  /\ ProjectionOf(BaselineResult.projections, l.id).monthsToPayoff =
               PayoffRun(l.currentBalance, l.minimumPayment, l.interestRate,
                         l.startDate).months
        /\ BaselineResult.totalInterest =
               calculateTotalInterest(l.currentBalance, l.minimumPayment, l.interestRate)

\* C29 as stated: for a single active loan with balance > 0 whose minimum
\* payment exceeds its first month's interest and which pays off within 600
\* months, the baseline monthsToPayoff equals the months calculatePayoffDate
\* advances startDate and the baseline totalInterest equals
\* calculateTotalInterest(balance, minimumPayment, rate).
C29_AsStated ==
    (SingleLoanPaidOff /\ activeLoans[1].currentBalance > 0) => PrimitivesAgree

\* C29, amended: the same for a balance above 0.01; a loan with a balance of
\* 0.01 or less is paid off in month 1 by the simulation and in 0 months by
\* calculatePayoffDate.
C29_PrimitivesAgree ==
    (SingleLoanPaidOff /\ activeLoans[1].currentBalance > Cent) => PrimitivesAgree

\* a single active loan paid off by its minimums in more than one month,
\* with interest
C29_Witness ==
    /\ SingleLoanPaidOff
    /\ activeLoans[1].currentBalance > Cent
    /\ BaselineResult.totalMonths > 1
    /\ BaselineResult.totalInterest > 0
    /\ PrimitivesAgree

----------------------------------------------------------------------------
(* SpecCompare: calculateStrategyProjections with the balances of the      *)
(* minimum-payment simulation kept month by month                          *)

\* a request with a loan its minimums pay off and a loan whose minimum is
\* below its interest
SlowLoans == <<WithId(LoanA, 1), WithId(LoanD, 2)>>

InitCompare ==
    /\ Init
    /\ loans \in LoanLists(RepeatPool, MaxLoans)
                   \cup {ScenarioLoans, EdgeLoans, PennyLoans, SlowLoans}

NextCompare ==
    \/ Begin
    \/ SimulateMonthRecorded
    \/ ReturnMinPaymentCallStrategy
    \/ ReturnMinPaymentOnly
    \/ ReturnStrategy
    \/ Aggregate

SpecCompare == InitCompare /\ [][NextCompare]_vars

----------------------------------------------------------------------------
(* C30 *)

\* the balance the month simulated last left a loan of its working set with
EndBalance(loan) == loan.currentBalance - principalThisMonth[loan.id]

\* the strategy simulation has simulated a month
StrategyMonthSimulated ==
    /\ pc \in {"strategy", "allocate", "done"}
    /\ simStrategy # Null
    /\ month >= 1

\* C30: in simulateLoanPayoff every loan's balance is non-increasing from
\* month to month (a payment that does not cover the interest leaves the
\* balance as it was), in the strategy run each loan's balance at the end of
\* a month is at most its balance at the end of that month of the baseline
\* run, and each loan's monthsToPayoff of the strategy run is at most that
\* of the baseline run.
C30_BalancesNonIncreasing ==
    /\ \A i \in 1..Len(monthStart) :
           LET loan == monthStart[i]
           IN  /\ EndBalance(loan) <= loan.currentBalance
               /\ StillWorking(loan.id)
                      => WorkingById(loan.id).currentBalance = EndBalance(loan)
               /\ paymentsThisMonth[loan.id] <= MonthInterest(loan)
                      => EndBalance(loan) = loan.currentBalance
    /\ \A m \in {Len(baselineBalances)} \ {0, 1} :
           \A id \in DOMAIN baselineBalances[m] :
               /\ id \in DOMAIN baselineBalances[m - 1]
               /\ baselineBalances[m][id] <= baselineBalances[m - 1][id]
    /\ StrategyMonthSimulated =>
           \A i \in 1..Len(monthStart) :
               LET loan == monthStart[i]
               IN  /\ month <= Len(baselineBalances)
                   /\ loan.id \in DOMAIN baselineBalances[month]
                   /\ EndBalance(loan) <= baselineBalances[month][loan.id]
    /\ (pc = "done" /\ strategyType # Null) =>
           \A id \in ActiveIds :
               ProjectionOf(strategySimulation.projections, id).monthsToPayoff
                   <= ProjectionOf(minPaymentSimulation.projections, id).monthsToPayoff

\* in a month after the first the strategy run left a loan with a balance
\* above 0 and below the balance the baseline run left it with, next to a
\* loan whose payment did not cover its interest
C30_Witness ==
    /\ pc = "strategy"
    /\ month >= 2
    /\ \E i \in 1..Len(monthStart) :
           LET loan == monthStart[i]
           IN  /\ EndBalance(loan) > 0
               /\ EndBalance(loan) < loan.currentBalance
               /\ EndBalance(loan) < baselineBalances[month][loan.id]
    /\ \E i \in 1..Len(monthStart) :
           LET loan == monthStart[i]
           IN  /\ paymentsThisMonth[loan.id] <= MonthInterest(loan)
               /\ MonthInterest(loan) > 0
               /\ EndBalance(loan) = loan.currentBalance

====
